---- MODULE Spec2Model ----
(***************************************************************************)
(* Building sweep optimisation: the coarse navigation graph, the greedy    *)
(* optimizer family, the simulation engines and the genetic optimizer.     *)
(*                                                                         *)
(* Times and distances are exact integers: the weights of the coarse graph *)
(* are even and the walking speed is 1 or 2; the dense graphs, whose edges *)
(* may have weight 1, are walked at speed 1. Every quotient distance /     *)
(* speed of the code is then an exact integer quotient here.               *)
(***************************************************************************)
EXTENDS Integers, Sequences, FiniteSets, TLC

VARIABLES
    building,        \* Building: rooms (static attributes), exits, connections
    graph,           \* BuildingGraph.graph: nodes and weighted edges
    n_responders,    \* GreedyOptimizer.n_responders / len(team)
    capabilities,    \* the capability parameters every Responder is created with
    strategy,        \* GreedyOptimizer.strategy
    runs,            \* two GreedyOptimizer.optimize() calls on the same inputs
    engine,          \* which simulation engine replays the assignment
    assignment,      \* the assignment handed to the simulation engine
    responders,      \* ResponderTeam.responders: the run state of every responder
    clearance,       \* cleared / cleared_at / cleared_by of every room
    sim,             \* where run() is: pc, responder k, index i, current_location
    warnings,        \* the "No path" warnings printed so far
    results,         \* the dictionary run() returns
    ga,              \* GeneticOptimizer: its fields and where optimize() is
    evaluations,     \* calls of _evaluate_fitness in progress: their locals
    topdown,         \* TopDownOptimizer.optimize(): its locals and where it is
    smart            \* SmartOptimizer: its analysis and the strategy selected

greedyVars == <<strategy, runs>>
simVars == <<engine, assignment, responders, clearance, sim, warnings, results>>
gaVars == <<ga, evaluations>>
optVars == <<topdown, smart>>
vars == <<building, graph, n_responders, capabilities, strategy, runs,
          engine, assignment, responders, clearance, sim, warnings, results, ga,
          evaluations, topdown, smart>>

(***************************************************************************)
(* Bounds of the model                                                     *)
(***************************************************************************)
NRooms == 3
MaxResponders == 3
MaxAssigned == 2            \* rooms in an assignment handed to an engine
MaxFloors == 3              \* Building.n_floors of the multi-floor facilities
MaxSmartRooms == 4          \* rooms of the buildings SmartOptimizer analyses
PopulationSize == 3         \* GeneticOptimizer.population_size
Generations == 2            \* GeneticOptimizer.generations

(***************************************************************************)
(* Program constants                                                       *)
(***************************************************************************)
Inf == 1000000              \* np.inf: larger than every finite path length
DefaultBaseCheckTime == 10
DefaultCheckRate == 1
DefaultArea == 16
FarDoor == 6                \* a door this far from every corridor waypoint
NoTime == -1                \* None as a cleared_at
NoResponder == 0            \* None as a cleared_by

RoomNames == <<"R1", "R2", "R3", "R4", "R5", "R6", "R7", "R8", "R9", "R10">>
RoomList == [i \in 1..NRooms |-> RoomNames[i]]    \* building.rooms in dict order
Rooms == {RoomList[i] : i \in 1..NRooms}
ExitList == <<"E1", "E2">>                        \* building.exits in dict order
Exits == {"E1", "E2"}
Corridor == "C_main"
Weights == {2, 4}
WalkSpeeds == {1, 2}

Min(S) == CHOOSE x \in S : \A y \in S : x <= y
Max(S) == CHOOSE x \in S : \A y \in S : x >= y
Range(s) == {s[i] : i \in DOMAIN s}

RECURSIVE Perms(_)
\* every order in which a Python set holding S can be iterated
Perms(S) ==
    IF S = {} THEN {<<>>}
    ELSE UNION {{<<x>> \o p : p \in Perms(S \ {x})} : x \in S}

(***************************************************************************)
(* Room and Building (models/building.py)                                  *)
(***************************************************************************)
\* a check time that leaves the complexity of the room out
check_time_without_complexity(room, base_time, rate) == base_time + rate * room.area

\* Room.calculate_check_time(base_time, rate)
calculate_check_time(room, base_time, rate) ==
    base_time + rate * room.area * room.check_complexity

\* Building.add_connection: the connection and its reverse
add_connection(from_id, to_id, distance) ==
    {[from |-> from_id, to |-> to_id, distance |-> distance],
     [from |-> to_id, to |-> from_id, distance |-> distance]}

\* Room(room_id, area, position, floor, priority): the position of room i
\* follows the two-sided layout (left side x = 5, right side x = 25).
\* door_distance is the distance from the room's door to the nearest corridor
\* waypoint, which the dense graphs compute from the positions.
Room(i, floor, priority, door_distance) ==
    [id |-> RoomNames[i], area |-> DefaultArea,
     position |-> <<IF i % 2 = 1 THEN 5 ELSE 25, 10 * ((i + 1) \div 2)>>,
     floor |-> floor, priority |-> priority, check_complexity |-> 1,
     door_distance |-> door_distance]

RoomIndex(r) == CHOOSE i \in DOMAIN RoomNames : RoomNames[i] = r

\* A facility: one corridor on floor 1 with the exit E1 at its end (distance 0,
\* as create_simple builds it); room r joined to the corridor at distance rw[r]
\* (0: not joined); the exit E2 joined to the corridor or not (e2c); the last
\* room joined to E2 directly or not (e2r); the last room and E2 on floor 2,
\* which has no corridor, or on floor 1 (up).
Facility(rw, prio, e2c, e2r, up) ==
    [rooms |-> [r \in Rooms |->
                  Room(RoomIndex(r), IF up /\ r = RoomList[NRooms] THEN 2 ELSE 1,
                       prio[r], IF rw[r] = 0 THEN FarDoor ELSE rw[r])],
     exits |-> ExitList,
     exit_floor |-> [e \in Exits |-> IF up /\ e = "E2" THEN 2 ELSE 1],
     corridor_floor |-> 1,
     connections |->
         UNION {IF rw[r] = 0 THEN {} ELSE add_connection(r, Corridor, rw[r]) : r \in Rooms}
         \cup add_connection(Corridor, "E1", 0)
         \cup (IF e2c THEN add_connection(Corridor, "E2", 0) ELSE {})
         \cup (IF e2r THEN add_connection("E2", RoomList[NRooms], 2) ELSE {})]

NormalPriority == [r \in Rooms |-> 1]

\* list(building.rooms.keys()): the rooms of a facility are the first of
\* RoomNames, added in that order
RoomIds(b) == [i \in 1..Cardinality(DOMAIN b.rooms) |-> RoomNames[i]]

\* the facility b built with its first m rooms only
FirstRooms(b, m) ==
    LET kept == {RoomNames[i] : i \in 1..m}
        gone == DOMAIN b.rooms \ kept
    IN  [b EXCEPT !.rooms = [r \in kept |-> b.rooms[r]],
                  !.connections = {c \in b.connections :
                                      c.from \notin gone /\ c.to \notin gone}]

\* the facilities the greedy optimizers are run on
GreedyFacilities ==
    {Facility(rw, prio, e2c, e2r, FALSE) :
        rw \in [Rooms -> {0} \cup Weights], prio \in [Rooms -> {1, 3}],
        e2c \in BOOLEAN, e2r \in BOOLEAN}

\* the facilities Simulator replays assignments on
CoarseFacilities ==
    {Facility(rw, NormalPriority, e2c, e2r, FALSE) :
        rw \in [Rooms -> {0, 2}], e2c \in BOOLEAN, e2r \in BOOLEAN}

\* the facilities the dense-graph engines replay assignments on
DenseFacilities ==
    {Facility(rw, NormalPriority, ~up, FALSE, up) :
        rw \in [Rooms -> {0, 2}], up \in BOOLEAN}

\* Building.stairs: the stairwells added with add_stairs, none for a
\* facility built without them
Stairs(b) == IF "stairs" \in DOMAIN b THEN b.stairs ELSE {}

\* the node of the stairwell stair_id on a floor: f"{stair_id}_F{floor}"
landing(stair_id, floor) == stair_id \o "_F" \o ToString(floor)

\* the stair nodes of a building: one for every floor a stairwell connects
Landings(b) ==
    UNION {{landing(s.id, s.connects[i]) : i \in DOMAIN s.connects} : s \in Stairs(b)}

\* the floor of a stair node
LandingFloor(b, v) ==
    LET s == CHOOSE x \in Stairs(b) :
                 \E i \in DOMAIN x.connects : v = landing(x.id, x.connects[i])
    IN  s.connects[CHOOSE i \in DOMAIN s.connects : v = landing(s.id, s.connects[i])]

\* Building.corridors beyond C_main: the corridor of an upper floor, if the
\* facility has one
UpperCorridors(b) == IF "upper_corridor" \in DOMAIN b THEN {b.upper_corridor} ELSE {}

(***************************************************************************)
(* BuildingGraph (models/graph.py)                                         *)
(***************************************************************************)
\* the graph a set of weighted edges {<<u, v, w>>} makes, in both directions
MakeGraph(nodes, type, floor, edges) ==
    [nodes |-> nodes, type |-> type, floor |-> floor,
     weight |-> [e \in {<<x[1], x[2]>> : x \in edges} \cup {<<x[2], x[1]>> : x \in edges} |->
                   (CHOOSE x \in edges : {x[1], x[2]} = {e[1], e[2]})[3]]]

\* BuildingGraph._build_graph: room, exit, corridor and stair nodes, and an
\* edge for every connection whose two ends are nodes
BuildingGraph(b) ==
    LET upper == {c.id : c \in UpperCorridors(b)}
        nodes == DOMAIN b.rooms \cup Range(b.exits) \cup {Corridor} \cup upper
                   \cup Landings(b)
        conns == {c \in b.connections : c.from \in nodes /\ c.to \in nodes}
    IN  MakeGraph(nodes,
                  [v \in nodes |-> IF v \in DOMAIN b.rooms THEN "room"
                                   ELSE IF v \in {Corridor} \cup upper THEN "corridor"
                                   ELSE IF v \in Landings(b) THEN "stair" ELSE "exit"],
                  [v \in nodes |-> IF v \in DOMAIN b.rooms THEN b.rooms[v].floor
                                   ELSE IF v = Corridor THEN b.corridor_floor
                                   ELSE IF v \in upper
                                   THEN (CHOOSE c \in UpperCorridors(b) : c.id = v).floor
                                   ELSE IF v \in Landings(b) THEN LandingFloor(b, v)
                                   ELSE b.exit_floor[v]],
                  {<<c.from, c.to, c.distance>> : c \in conns})

has_edge(g, u, v) == <<u, v>> \in DOMAIN g.weight

RECURSIVE PathLength(_, _, _, _)
\* the least total weight of a simple path from u to target that avoids
\* `visited`; Inf when there is none
PathLength(g, u, target, visited) ==
    IF u = target THEN 0
    ELSE LET onward == {LET rest == PathLength(g, e[2], target, visited \cup {e[2]})
                        IN  IF rest >= Inf THEN Inf ELSE g.weight[e] + rest :
                            e \in {x \in DOMAIN g.weight : x[1] = u /\ x[2] \notin visited}}
         IN  Min(onward \cup {Inf})

\* the length of the direct connection only, as Building.get_distance gives it
direct_distance(g, source, target) ==
    IF source = target THEN 0
    ELSE IF <<source, target>> \in DOMAIN g.weight THEN g.weight[<<source, target>>]
    ELSE Inf

\* BuildingGraph.shortest_path(source, target)[1]: the length of a shortest
\* path, np.inf when nx raises NetworkXNoPath
shortest_path_length(g, source, target) == PathLength(g, source, target, {source})

(***************************************************************************)
(* ResponderTeam (models/responder.py) as the optimizers create it         *)
(***************************************************************************)
\* GreedyOptimizer.__init__: the first n exits, the exit list repeated when
\* there are fewer exits than responders
initial_positions(b, n) == [i \in 1..n |-> b.exits[((i - 1) % Len(b.exits)) + 1]]

Capabilities ==
    {[walk_speed |-> ws, stair_up_speed |-> 1, stair_down_speed |-> 4,
      check_rate |-> DefaultCheckRate, base_check_time |-> DefaultBaseCheckTime] :
        ws \in WalkSpeeds}

(***************************************************************************)
(* GreedyOptimizer (algorithms/greedy.py)                                  *)
(***************************************************************************)
NoRoom == "None"
NoBest == [responder |-> 0, room |-> NoRoom, distance |-> Inf]

RECURSIVE ScanRooms(_, _, _, _, _)
\* for room_id in unchecked_rooms: keep the first room strictly nearer than the
\* best so far; `order` is the order in which the set is iterated
ScanRooms(g, current_pos, who, order, best) ==
    IF order = <<>> THEN best
    ELSE LET distance == shortest_path_length(g, current_pos, Head(order))
         IN  ScanRooms(g, current_pos, who, Tail(order),
                       IF distance < best.distance
                       THEN [responder |-> who, room |-> Head(order), distance |-> distance]
                       ELSE best)

RECURSIVE ScanResponders(_, _, _, _, _, _)
\* for responder in self.team: for room_id in unchecked_rooms
ScanResponders(g, positions, k, n, order, best) ==
    IF k > n THEN best
    ELSE ScanResponders(g, positions, k + 1, n, order,
                        ScanRooms(g, positions[k], k, order, best))

\* the first key, whatever the values
FirstResponder(estimated_times) == Min(DOMAIN estimated_times)

\* min(estimated_times, key=estimated_times.get): the first key of least value
MinResponder(estimated_times) ==
    Min({k \in DOMAIN estimated_times :
            \A j \in DOMAIN estimated_times : estimated_times[k] <= estimated_times[j]})

\* the locals of _greedy_nearest / _greedy_balanced before the while loop
GreedyStart(b, n) ==
    [pc |-> "loop",
     assignment |-> [k \in 1..n |-> <<>>],
     unchecked_rooms |-> DOMAIN b.rooms,
     estimated_times |-> [k \in 1..n |-> 0],
     positions |-> initial_positions(b, n)]

\* one iteration of the while loop of _greedy_nearest
NearestIteration(run, order) ==
    LET best == ScanResponders(graph, run.positions, 1, n_responders, order, NoBest)
    IN  IF best.room = NoRoom
        THEN [run EXCEPT !.pc = "done"]
        ELSE [run EXCEPT
                !.assignment[best.responder] = Append(@, best.room),
                !.positions[best.responder] = best.room,
                !.unchecked_rooms = @ \ {best.room}]

\* one iteration of the while loop of _greedy_balanced
BalancedIteration(run, order) ==
    LET min_responder_id == MinResponder(run.estimated_times)
        best == ScanRooms(graph, run.positions[min_responder_id], min_responder_id,
                          order, NoBest)
        travel_time == best.distance \div capabilities.walk_speed
        check_time == calculate_check_time(building.rooms[best.room],
                          capabilities.base_check_time, capabilities.check_rate)
    IN  IF best.room = NoRoom
        THEN [run EXCEPT !.pc = "done"]
        ELSE [run EXCEPT
                !.assignment[min_responder_id] = Append(@, best.room),
                !.positions[min_responder_id] = best.room,
                !.unchecked_rooms = @ \ {best.room},
                !.estimated_times[min_responder_id] = @ + travel_time + check_time]

\* key=lambda r: (-r.priority, r.position[1], r.position[0])
KeyLess(a, b) ==
    \/ a.priority > b.priority
    \/ a.priority = b.priority /\ a.position[2] < b.position[2]
    \/ a.priority = b.priority /\ a.position[2] = b.position[2]
            /\ a.position[1] < b.position[1]

RECURSIVE InsertSorted(_, _)
InsertSorted(s, r) ==
    IF s = <<>> THEN <<r>>
    ELSE IF KeyLess(r, Head(s)) THEN <<r>> \o s
    ELSE <<Head(s)>> \o InsertSorted(Tail(s), r)

RECURSIVE SortedRooms(_, _)
\* sorted(self.building.rooms.values(), key=...): stable, from dict order
SortedRooms(b, i) ==
    IF i = 0 THEN <<>>
    ELSE InsertSorted(SortedRooms(b, i - 1), b.rooms[RoomIds(b)[i]])

\* a round robin that starts from an assignment with the spare key n + 1
round_robin_with_spare(sorted, n) ==
    [k \in 1..(n + 1) |->
        LET idx == {i \in 1..Len(sorted) : ((i - 1) % n) + 1 = k}
            RECURSIVE Take(_)
            Take(i) == IF i > Len(sorted) THEN <<>>
                       ELSE (IF i \in idx THEN <<sorted[i].id>> ELSE <<>>) \o Take(i + 1)
        IN  Take(1)]

\* the round-robin deal of _greedy_priority: room i goes to (i % n) + 1
RoundRobin(sorted, n) ==
    [k \in 1..n |->
        LET idx == {i \in 1..Len(sorted) : ((i - 1) % n) + 1 = k}
            RECURSIVE Take(_)
            Take(i) == IF i > Len(sorted) THEN <<>>
                       ELSE (IF i \in idx THEN <<sorted[i].id>> ELSE <<>>) \o Take(i + 1)
        IN  Take(1)]

RECURSIVE PathOrders(_, _, _, _)
\* the while loop of _optimize_path_order: every result an iteration order of
\* `unvisited` can produce
PathOrders(g, current, unvisited, ordered) ==
    IF unvisited = {} THEN {ordered}
    ELSE UNION {LET nearest == ScanRooms(g, current, 0, order, NoBest)
                IN  IF nearest.room = NoRoom
                    THEN {ordered \o order}
                    ELSE PathOrders(g, nearest.room, unvisited \ {nearest.room},
                                    Append(ordered, nearest.room)) :
                    order \in Perms(unvisited)}

\* GreedyOptimizer._optimize_path_order(start_position, room_ids)
optimize_path_order(g, start_position, room_ids) ==
    IF Len(room_ids) <= 1 THEN {room_ids}
    ELSE PathOrders(g, start_position, Range(room_ids), <<>>)

RECURSIVE Reordered(_, _, _, _)
\* for responder in self.team: assignment[responder.id] = _optimize_path_order(...)
Reordered(b, g, dealt, k) ==
    IF k = 0 THEN {<<>>}
    ELSE {Append(a, p) :
            a \in Reordered(b, g, dealt, k - 1),
            p \in optimize_path_order(g, initial_positions(b, Len(dealt))[k], dealt[k])}

\* GreedyOptimizer._greedy_priority: every assignment it can return
greedy_priority(b, g, n) ==
    LET dealt == RoundRobin(SortedRooms(b, Len(RoomIds(b))), n)
    IN  Reordered(b, g, dealt, n)

Runs == {"A", "B"}
\* the second call is made after the first has returned
MayStep(x) == runs[x].pc = "loop" /\ (x = "B" => runs["A"].pc = "done")

NearestStep(x) ==
    /\ strategy = "nearest" /\ MayStep(x) /\ runs[x].unchecked_rooms # {}
    /\ \E order \in Perms(runs[x].unchecked_rooms) :
           runs' = [runs EXCEPT ![x] = NearestIteration(runs[x], order)]
    /\ UNCHANGED <<building, graph, n_responders, capabilities, strategy>>
    /\ UNCHANGED <<simVars, gaVars, optVars>>

BalancedStep(x) ==
    /\ strategy = "balanced" /\ MayStep(x) /\ runs[x].unchecked_rooms # {}
    /\ \E order \in Perms(runs[x].unchecked_rooms) :
           runs' = [runs EXCEPT ![x] = BalancedIteration(runs[x], order)]
    /\ UNCHANGED <<building, graph, n_responders, capabilities, strategy>>
    /\ UNCHANGED <<simVars, gaVars, optVars>>

\* while unchecked_rooms: ... return assignment
GreedyReturn(x) ==
    /\ strategy \in {"nearest", "balanced"} /\ MayStep(x)
    /\ runs[x].unchecked_rooms = {}
    /\ runs' = [runs EXCEPT ![x].pc = "done"]
    /\ UNCHANGED <<building, graph, n_responders, capabilities, strategy>>
    /\ UNCHANGED <<simVars, gaVars, optVars>>

PriorityRun(x) ==
    /\ strategy = "priority" /\ MayStep(x)
    /\ \E a \in greedy_priority(building, graph, n_responders) :
           runs' = [runs EXCEPT ![x].pc = "done", ![x].assignment = a,
                                ![x].unchecked_rooms = {}]
    /\ UNCHANGED <<building, graph, n_responders, capabilities, strategy>>
    /\ UNCHANGED <<simVars, gaVars, optVars>>

(***************************************************************************)
(* Responder (models/responder.py)                                         *)
(***************************************************************************)
\* Responder.__init__ / Responder.reset: the run state at the initial position
Responder(responder_id, initial_position, caps) ==
    [id |-> responder_id, initial_position |-> initial_position,
     position |-> initial_position,
     walk_speed |-> caps.walk_speed, stair_up_speed |-> caps.stair_up_speed,
     stair_down_speed |-> caps.stair_down_speed, check_rate |-> caps.check_rate,
     base_check_time |-> caps.base_check_time,
     path |-> <<initial_position>>,
     timeline |-> <<[time |-> 0, action |-> "start", location |-> initial_position]>>,
     current_time |-> 0,
     rooms_checked |-> <<>>]

\* ResponderTeam.__init__: responders 1..n
ResponderTeam(n, positions, caps) == [i \in 1..n |-> Responder(i, positions[i], caps)]

\* a reset that leaves the clock of the responder running
reset_keeps_time(r) ==
    [r EXCEPT !.position = r.initial_position,
              !.path = <<r.initial_position>>,
              !.timeline = <<[time |-> 0, action |-> "start",
                              location |-> r.initial_position]>>,
              !.rooms_checked = <<>>]

\* Responder.reset
reset(r) ==
    [r EXCEPT !.position = r.initial_position,
              !.path = <<r.initial_position>>,
              !.timeline = <<[time |-> 0, action |-> "start",
                              location |-> r.initial_position]>>,
              !.current_time = 0,
              !.rooms_checked = <<>>]

\* ResponderTeam.reset_all
reset_all(team) == [i \in DOMAIN team |-> reset(team[i])]

\* move_to with the arrival stamped with the travel time alone
move_to_stamps_travel_time(r, location, distance) ==
    LET travel_time == distance \div r.walk_speed
    IN  [r EXCEPT !.current_time = @ + travel_time,
                  !.position = location,
                  !.path = Append(@, location),
                  !.timeline = Append(@, [time |-> travel_time,
                                          action |-> "arrive", location |-> location])]

\* Responder.move_to(location, distance) with is_stairs = False
move_to(r, location, distance) ==
    LET travel_time == distance \div r.walk_speed
    IN  [r EXCEPT !.current_time = @ + travel_time,
                  !.position = location,
                  !.path = Append(@, location),
                  !.timeline = Append(@, [time |-> r.current_time + travel_time,
                                          action |-> "arrive", location |-> location])]

\* Responder.check_room(room): the responder's side
check_room(r, room) ==
    LET check_time == calculate_check_time(room, r.base_check_time, r.check_rate)
    IN  [r EXCEPT !.current_time = @ + check_time,
                  !.rooms_checked = Append(@, room.id),
                  !.timeline = Append(@, [time |-> r.current_time + check_time,
                                          action |-> "check_complete",
                                          location |-> room.id])]

\* the room stamped with the time of the responder's arrival
mark_cleared_at_arrival(cl, room_id, r) ==
    [cl EXCEPT ![room_id] = [cleared |-> TRUE,
                             cleared_at |-> r.timeline[Len(r.timeline) - 1].time,
                             cleared_by |-> r.id]]

\* Responder.check_room(room): the room's side, r being the responder after
\* the check
mark_cleared(cl, room_id, r) ==
    [cl EXCEPT ![room_id] = [cleared |-> TRUE, cleared_at |-> r.current_time,
                             cleared_by |-> r.id]]

NotCleared == [cleared |-> FALSE, cleared_at |-> NoTime, cleared_by |-> NoResponder]

\* Building.reset_clearance
reset_clearance(b) == [r \in DOMAIN b.rooms |-> NotCleared]

RECURSIVE MaxTime(_, _)
MaxTime(team, k) ==
    IF k = 1 THEN team[1].current_time
    ELSE LET m == MaxTime(team, k - 1)
         IN  IF team[k].current_time > m THEN team[k].current_time ELSE m

RECURSIVE MinTime(_, _)
MinTime(team, k) ==
    IF k = 1 THEN team[1].current_time
    ELSE LET m == MinTime(team, k - 1)
         IN  IF team[k].current_time < m THEN team[k].current_time ELSE m

\* the least of the responders' times
get_min_time(team) == MinTime(team, Len(team))

\* ResponderTeam.get_max_time
get_max_time(team) == MaxTime(team, Len(team))

(***************************************************************************)
(* The dense graphs (models/node_based_building.py, models/building_v2.py) *)
(***************************************************************************)
center(room_id) == room_id \o "_center"
door(room_id) == room_id \o "_door"
NodeWaypoints == <<"C_main_p0", "C_main_p1", "C_main_p2">>
DetailedWaypoints == <<"C_main_n0", "C_main_n1", "C_main_n2">>
UpperWaypoints == <<"C_up_p0", "C_up_p1", "C_up_p2">>
DoorJoinLimit == 5
StairJoinLimit == 10
StairLength == 4            \* the vertical connection, 4 metres per floor
HalfRoomSize == 2           \* room_size / 2 with room_size 4.0, sqrt(16) / 2

\* the waypoint nearest to a room's door, to an exit or to a stair node,
\* which the code finds from the positions
NearestWaypoint(b, points, x) ==
    IF x = "E1" THEN points[1]
    ELSE IF x = "E2" THEN points[Len(points)]
    ELSE IF x \in Landings(b) THEN points[2]
    ELSE points[((RoomIndex(x) - 1) % Len(points)) + 1]

\* the corridor nodes of a floor: those of C_main, those of the upper
\* corridor, or none
WaypointsOn(b, floor) ==
    IF floor = b.corridor_floor THEN NodeWaypoints
    ELSE IF \E c \in UpperCorridors(b) : c.floor = floor THEN UpperWaypoints
    ELSE <<>>

\* NodeBasedBuilding._create_all_nodes and _connect_nodes
NodeBasedBuilding(b) ==
    LET R == DOMAIN b.rooms
        upper == IF UpperCorridors(b) = {} THEN {} ELSE Range(UpperWaypoints)
        waypoints == Range(NodeWaypoints) \cup upper
        nodes == {center(r) : r \in R} \cup {door(r) : r \in R}
                   \cup waypoints \cup Range(b.exits) \cup Landings(b)
        edges ==
            {<<center(r), door(r), HalfRoomSize>> : r \in R}
            \cup {<<NodeWaypoints[i], NodeWaypoints[i + 1], 1>> :
                    i \in 1..(Len(NodeWaypoints) - 1)}
            \cup {<<UpperWaypoints[i], UpperWaypoints[i + 1], 1>> :
                    i \in {j \in 1..(Len(UpperWaypoints) - 1) : upper # {}}}
            \cup UNION {{<<landing(s.id, s.connects[i]), landing(s.id, s.connects[i + 1]),
                            StairLength>> : i \in 1..(Len(s.connects) - 1)} :
                        s \in Stairs(b)}
            \cup {<<door(r), NearestWaypoint(b, WaypointsOn(b, b.rooms[r].floor), r),
                    b.rooms[r].door_distance>> :
                    r \in {x \in R : WaypointsOn(b, b.rooms[x].floor) # <<>>
                                     /\ b.rooms[x].door_distance < DoorJoinLimit}}
            \cup {<<e, NearestWaypoint(b, WaypointsOn(b, b.exit_floor[e]), e), 0>> :
                    e \in {x \in Range(b.exits) : WaypointsOn(b, b.exit_floor[x]) # <<>>}}
            \cup UNION {{<<landing(s.id, f),
                            NearestWaypoint(b, WaypointsOn(b, f), landing(s.id, f)),
                            s.corridor_distance>> :
                          f \in {s.connects[i] : i \in DOMAIN s.connects}
                                 \cap {x \in 1..MaxFloors : WaypointsOn(b, x) # <<>>}} :
                        s \in {x \in Stairs(b) : x.corridor_distance < StairJoinLimit}}
    IN  MakeGraph(nodes,
                  [v \in nodes |-> IF v \in {center(r) : r \in R} THEN "room_center"
                                   ELSE IF v \in {door(r) : r \in R} THEN "door"
                                   ELSE IF v \in waypoints THEN "corridor"
                                   ELSE IF v \in Landings(b) THEN "stair"
                                   ELSE "exit"],
                  [v \in nodes |-> IF \E r \in R : v \in {center(r), door(r)}
                                   THEN b.rooms[CHOOSE r \in R : v \in {center(r), door(r)}].floor
                                   ELSE IF v \in Range(NodeWaypoints) THEN b.corridor_floor
                                   ELSE IF v \in upper
                                   THEN (CHOOSE c \in UpperCorridors(b) : TRUE).floor
                                   ELSE IF v \in Landings(b) THEN LandingFloor(b, v)
                                   ELSE b.exit_floor[v]],
                  edges)

\* BuildingWithDoors.finalize_doors and build_detailed_graph: a door exists
\* only for a room with a corridor on its floor
build_detailed_graph(b) ==
    LET R == DOMAIN b.rooms
        D == {r \in R : b.rooms[r].floor = b.corridor_floor}
        nodes == R \cup {door(r) : r \in D} \cup Range(DetailedWaypoints)
                   \cup Range(b.exits)
        edges ==
            {<<r, door(r), HalfRoomSize>> : r \in D}
            \cup {<<DetailedWaypoints[i], DetailedWaypoints[i + 1], 2>> :
                    i \in 1..(Len(DetailedWaypoints) - 1)}
            \cup {<<door(r), NearestWaypoint(b, DetailedWaypoints, r),
                    b.rooms[r].door_distance>> : r \in D}
            \cup {<<e, NearestWaypoint(b, DetailedWaypoints, e), 0>> :
                    e \in {x \in Range(b.exits) : b.exit_floor[x] = b.corridor_floor}}
    IN  MakeGraph(nodes,
                  [v \in nodes |-> IF v \in R THEN "room"
                                   ELSE IF v \in {door(r) : r \in D} THEN "door"
                                   ELSE IF v \in Range(DetailedWaypoints) THEN "corridor"
                                   ELSE "exit"],
                  [v \in nodes |-> IF v \in R THEN b.rooms[v].floor
                                   ELSE IF \E r \in D : v = door(r)
                                   THEN b.rooms[CHOOSE r \in D : v = door(r)].floor
                                   ELSE IF v \in Range(DetailedWaypoints) THEN b.corridor_floor
                                   ELSE b.exit_floor[v]],
                  edges)

RECURSIVE SimplePaths(_, _, _)
\* the simple paths that extend `path` to `target`
SimplePaths(g, path, target) ==
    LET u == path[Len(path)]
    IN  IF u = target THEN {path}
        ELSE UNION {SimplePaths(g, Append(path, e[2]), target) :
                      e \in {x \in DOMAIN g.weight : x[1] = u /\ x[2] \notin Range(path)}}

RECURSIVE PathWeight(_, _)
PathWeight(g, path) ==
    IF Len(path) <= 1 THEN 0
    ELSE g.weight[<<path[1], path[2]>>] + PathWeight(g, Tail(path))

\* nx.shortest_path(g, source, target, weight='weight'): every path of least
\* weight is a possible answer; the empty set stands for NetworkXNoPath and
\* NodeNotFound
shortest_paths(g, source, target) ==
    IF source \notin g.nodes \/ target \notin g.nodes THEN {}
    ELSE LET all == SimplePaths(g, <<source>>, target)
         IN  {p \in all : \A q \in all : PathWeight(g, p) <= PathWeight(g, q)}

\* NodeBasedBuilding.get_shortest_path(start, end)[0]: room ids become centre
\* nodes; [] when nx raises
get_shortest_path(b, g, start, end) ==
    LET start_node == IF start \in DOMAIN b.rooms THEN center(start) ELSE start
        end_node == IF end \in DOMAIN b.rooms THEN center(end) ELSE end
        found == shortest_paths(g, start_node, end_node)
    IN  IF found = {} THEN {<<>>} ELSE found

(***************************************************************************)
(* The greedy optimizers run twice on one facility                         *)
(***************************************************************************)
NoResults == [success |-> FALSE]
GAIdle == [pc |-> "idle"]
NoEvals == <<>>
TopDownIdle == [pc |-> "idle"]
SmartIdle == [pc |-> "idle"]
OptIdle == topdown = TopDownIdle /\ smart = SmartIdle
Idle == [pc |-> "idle", k |-> 0, i |-> 0, current_location |-> NoRoom]

SimIdle ==
    /\ engine = "Simulator"
    /\ assignment = <<>>
    /\ responders = <<>>
    /\ clearance = <<>>
    /\ sim = Idle
    /\ warnings = <<>>
    /\ results = NoResults

InitGreedy ==
    /\ building \in GreedyFacilities
    /\ graph = BuildingGraph(building)
    /\ n_responders \in 1..MaxResponders
    /\ capabilities \in Capabilities
    /\ strategy \in {"nearest", "priority", "balanced"}
    /\ strategy # "priority" => \A r \in Rooms : building.rooms[r].priority = 1
    /\ runs = [x \in Runs |-> GreedyStart(building, n_responders)]
    /\ SimIdle
    /\ ga = GAIdle
    /\ evaluations = NoEvals
    /\ OptIdle

NextGreedy ==
    \E x \in Runs :
        NearestStep(x) \/ BalancedStep(x) \/ GreedyReturn(x) \/ PriorityRun(x)

SpecGreedy == InitGreedy /\ [][NextGreedy]_vars

(***************************************************************************)
(* The simulation engines (algorithms/simulator.py, node_simulator.py,     *)
(* detailed_simulator.py)                                                  *)
(***************************************************************************)
Engines == {"Simulator", "NodeSimulator", "DetailedSimulator"}

Outcome(r, cl, current_location, warning) ==
    [responder |-> r, clearance |-> cl, current_location |-> current_location,
     warning |-> warning]

\* the room loop of Simulator with an unreachable room walked to over a
\* default distance, as DetailedSimulator does
SimulatorRoomDefaultDistance(b, g, r, cl, current_location, room_id) ==
    LET found == shortest_path_length(g, current_location, room_id)
        distance == IF found = Inf THEN 5 * r.walk_speed ELSE found
        moved == move_to(r, room_id, distance)
        checked == check_room(moved, b.rooms[room_id])
    IN  {Outcome(checked, mark_cleared(cl, room_id, checked), room_id, <<>>)}

\* Simulator._execute_path: one iteration of "for room_id in room_ids"
SimulatorRoom(b, g, r, cl, current_location, room_id) ==
    LET distance == shortest_path_length(g, current_location, room_id)
    IN  IF distance = Inf
        THEN {Outcome(r, cl, current_location, <<<<current_location, room_id>>>>)}
        ELSE LET moved == move_to(r, room_id, distance)
                 checked == check_room(moved, b.rooms[room_id])
             IN  {Outcome(checked, mark_cleared(cl, room_id, checked), room_id, <<>>)}

RECURSIVE NodeTravel(_, _, _, _)
\* NodeSimulator._execute_node_path: "for i in range(len(path_nodes) - 1)"
NodeTravel(g, r, path_nodes, i) ==
    IF i >= Len(path_nodes) THEN r
    ELSE LET from_node == path_nodes[i]
             to_node == path_nodes[i + 1]
             edge_weight == g.weight[<<from_node, to_node>>]
             speed == IF g.type[from_node] = "stair" /\ g.type[to_node] = "stair"
                      THEN IF g.floor[to_node] > g.floor[from_node]
                           THEN r.stair_up_speed ELSE r.stair_down_speed
                      ELSE r.walk_speed
             t == r.current_time + (edge_weight \div speed)
         IN  IF <<from_node, to_node>> \in DOMAIN g.weight
             THEN NodeTravel(g, [r EXCEPT !.current_time = t,
                                          !.timeline = Append(@, [time |-> t,
                                              action |-> "passing", location |-> to_node])],
                             path_nodes, i + 1)
             ELSE NodeTravel(g, r, path_nodes, i + 1)

\* the check every dense engine makes on arrival: arrive event, check time,
\* clearance, check_complete event
ArriveAndCheck(b, r, cl, room_id, position, arrive) ==
    LET check_time == calculate_check_time(b.rooms[room_id], r.base_check_time, r.check_rate)
        t == r.current_time + check_time
        checked == [r EXCEPT !.position = position,
                             !.current_time = t,
                             !.rooms_checked = Append(@, room_id),
                             !.timeline = @ \o <<[time |-> r.current_time, action |-> arrive,
                                                  location |-> room_id],
                                                 [time |-> t, action |-> "check_complete",
                                                  location |-> room_id]>>]
    IN  [responder |-> checked, clearance |-> mark_cleared(cl, room_id, checked)]

\* NodeSimulator._execute_node_path: one iteration of "for room_id in room_ids"
NodeRoom(b, g, r, cl, current_location, room_id) ==
    {IF path_nodes = <<>>
     THEN Outcome(r, cl, current_location, <<<<current_location, room_id>>>>)
     ELSE LET done == ArriveAndCheck(b, NodeTravel(g, r, path_nodes, 1), cl, room_id,
                                     center(room_id), "arrive")
          IN  Outcome(done.responder, done.clearance, room_id, <<>>) :
        path_nodes \in get_shortest_path(b, g, current_location, room_id)}

RECURSIVE DetailedTravel(_, _, _, _)
\* DetailedSimulator._execute_detailed_path: "for i in range(len(path_to_door) - 1)"
DetailedTravel(g, r, path_to_door, i) ==
    IF i >= Len(path_to_door) THEN r
    ELSE LET from_node == path_to_door[i]
             to_node == path_to_door[i + 1]
             edge_dist == IF <<from_node, to_node>> \in DOMAIN g.weight
                          THEN g.weight[<<from_node, to_node>>] ELSE 1
         IN  DetailedTravel(g,
                 [r EXCEPT !.path = Append(@, to_node),
                           !.timeline = Append(@, [time |-> r.current_time,
                                                   action |-> "passing",
                                                   location |-> to_node]),
                           !.current_time = @ + (edge_dist \div r.walk_speed)],
                 path_to_door, i + 1)

\* the path DetailedSimulator takes to the door: a shortest path, or the
\* fallback [current_location, room_id] when the door is no node or nx raises
PathsToDoor(g, current_location, room_id) ==
    LET found == IF door(room_id) \in g.nodes
                 THEN shortest_paths(g, current_location, door(room_id)) ELSE {}
    IN  IF found = {} THEN {<<current_location, room_id>>} ELSE found

\* DetailedSimulator._execute_detailed_path: one iteration of the room loop
DetailedRoom(b, g, r, cl, current_location, room_id) ==
    {LET door_id == door(room_id)
         at_door == DetailedTravel(g, r, path_to_door, 1)
         at_center ==
             IF door_id \in g.nodes /\ room_id \in g.nodes
                    /\ <<door_id, room_id>> \in DOMAIN g.weight
             THEN [at_door EXCEPT !.current_time =
                       @ + (g.weight[<<door_id, room_id>>] \div r.walk_speed)]
             ELSE at_door
         done == ArriveAndCheck(b, at_center, cl, room_id, room_id, "arrive_room")
     IN  Outcome(done.responder, done.clearance, door_id, <<>>) :
        path_to_door \in PathsToDoor(g, current_location, room_id)}

\* load_balance is 1 - sqrt(num / den) with num / den the squared quotient
\* np.std(times) / np.mean(times), or nan
NaN == [nan |-> TRUE, num |-> 0, den |-> 1]
One == [nan |-> FALSE, num |-> 0, den |-> 1]

RECURSIVE SumSeq(_)
SumSeq(s) == IF s = <<>> THEN 0 ELSE Head(s) + SumSeq(Tail(s))

\* 1.0 - (np.std(responder_times) / np.mean(responder_times)): the population
\* standard deviation over the mean; 0.0 / 0.0 is nan
StdOverMean(times) ==
    LET n == Len(times)
        total == SumSeq(times)
        squares == SumSeq([i \in 1..n |-> times[i] * times[i]])
    IN  IF total = 0 THEN NaN
        ELSE [nan |-> FALSE, num |-> n * squares - total * total, den |-> total * total]

\* Simulator._collect_results, DetailedSimulator._collect_results:
\* ... if responder_times else 1.0
load_balance(times) == IF times # <<>> THEN StdOverMean(times) ELSE One

\* the same with a mean of 0 taken as perfectly balanced
load_balance_guarded(times) ==
    IF times # <<>> /\ SumSeq(times) > 0 THEN StdOverMean(times) ELSE One

\* NodeSimulator._collect_results:
\* ... if responder_times and np.mean(responder_times) > 0 else 1.0
node_load_balance(times) == load_balance_guarded(times)

\* _collect_results: "... / len(self.building.rooms)" raises ZeroDivisionError
\* for a building without rooms
CollectRaises(b) == DOMAIN b.rooms = {}

\* _collect_results of the three engines
collect_results(team, cl, lb) ==
    [success |-> \A r \in DOMAIN cl : cl[r].cleared,
     total_time |-> get_max_time(team),
     responder_times |-> [k \in DOMAIN team |-> team[k].current_time],
     room_clearance |-> cl,
     load_balance |-> lb]

\* Simulator.run / NodeSimulator.run / DetailedSimulator.run up to the first
\* responder: reset the building and the team
Run ==
    /\ sim.pc = "ready"
    /\ clearance' = reset_clearance(building)
    /\ responders' = reset_all(responders)
    /\ sim' = [pc |-> "executing", k |-> 1, i |-> 1,
               current_location |-> responders'[1].position]
    /\ UNCHANGED <<building, graph, n_responders, capabilities, greedyVars, gaVars, optVars,
                   engine, assignment, warnings, results>>

AtRoom == sim.pc = "executing" /\ sim.i <= Len(assignment[sim.k])

Apply(out) ==
    /\ responders' = [responders EXCEPT ![sim.k] = out.responder]
    /\ clearance' = out.clearance
    /\ warnings' = warnings \o out.warning
    /\ sim' = [sim EXCEPT !.i = @ + 1, !.current_location = out.current_location]
    /\ UNCHANGED <<building, graph, n_responders, capabilities, greedyVars, gaVars, optVars,
                   engine, assignment, results>>

SimulatorExecute ==
    /\ engine = "Simulator" /\ AtRoom
    /\ \E out \in SimulatorRoom(building, graph, responders[sim.k], clearance,
                                sim.current_location, assignment[sim.k][sim.i]) :
           Apply(out)

NodeExecute ==
    /\ engine = "NodeSimulator" /\ AtRoom
    /\ \E out \in NodeRoom(building, graph, responders[sim.k], clearance,
                           sim.current_location, assignment[sim.k][sim.i]) :
           Apply(out)

DetailedExecute ==
    /\ engine = "DetailedSimulator" /\ AtRoom
    /\ \E out \in DetailedRoom(building, graph, responders[sim.k], clearance,
                               sim.current_location, assignment[sim.k][sim.i]) :
           Apply(out)

\* for responder in self.team: the next responder starts from its position
NextResponder ==
    /\ sim.pc = "executing" /\ sim.i > Len(assignment[sim.k])
    /\ sim.k < Len(responders)
    /\ sim' = [sim EXCEPT !.k = @ + 1, !.i = 1,
                          !.current_location = responders[sim.k + 1].position]
    /\ UNCHANGED <<building, graph, n_responders, capabilities, greedyVars, gaVars, optVars,
                   engine, assignment, responders, clearance, warnings, results>>

AllExecuted ==
    /\ sim.pc = "executing" /\ sim.i > Len(assignment[sim.k])
    /\ sim.k = Len(responders)

Collect(lb) ==
    /\ AllExecuted
    /\ results' = collect_results(responders, clearance, lb)
    /\ sim' = [sim EXCEPT !.pc = "done"]
    /\ UNCHANGED <<building, graph, n_responders, capabilities, greedyVars, gaVars, optVars,
                   engine, assignment, responders, clearance, warnings>>

ResponderTimes == [k \in DOMAIN responders |-> responders[k].current_time]

SimulatorCollect ==
    /\ engine = "Simulator" /\ ~CollectRaises(building)
    /\ Collect(load_balance(ResponderTimes))

\* Simulator._collect_results on a building without rooms: the division of
\* redundancy_coverage raises ZeroDivisionError and run() returns nothing
SimulatorCollectRaises ==
    /\ engine = "Simulator" /\ CollectRaises(building)
    /\ AllExecuted
    /\ sim' = [sim EXCEPT !.pc = "raised"]
    /\ UNCHANGED <<building, graph, n_responders, capabilities, greedyVars, gaVars, optVars,
                   engine, assignment, responders, clearance, warnings, results>>
NodeCollect == engine = "NodeSimulator" /\ Collect(node_load_balance(ResponderTimes))
DetailedCollect == engine = "DetailedSimulator" /\ Collect(load_balance(ResponderTimes))

SeqsUpTo(S, L) == UNION {[1..m -> S] : m \in 0..L}

RECURSIVE Assignments(_, _)
\* the assignments for n responders that hold at most `budget` rooms
Assignments(n, budget) ==
    IF n = 0 THEN {<<>>}
    ELSE UNION {{Append(a, s) : a \in Assignments(n - 1, budget - Len(s))} :
                   s \in SeqsUpTo(Rooms, budget)}

\* the graph an engine is given
EngineGraph(e, b) ==
    IF e = "Simulator" THEN BuildingGraph(b)
    ELSE IF e = "NodeSimulator" THEN NodeBasedBuilding(b)
    ELSE build_detailed_graph(b)

GreedyIdle ==
    /\ strategy = "nearest"
    /\ runs = <<>>

InitSim ==
    /\ engine \in Engines
    /\ building \in (IF engine = "Simulator" THEN CoarseFacilities ELSE DenseFacilities)
    /\ graph = EngineGraph(engine, building)
    /\ n_responders \in 1..MaxResponders
    /\ capabilities \in Capabilities
    /\ engine # "Simulator" => capabilities.walk_speed = 1
    /\ assignment \in Assignments(n_responders, MaxAssigned)
    /\ responders = ResponderTeam(n_responders,
                                  initial_positions(building, n_responders), capabilities)
    /\ clearance = reset_clearance(building)
    /\ sim = [pc |-> "ready", k |-> 0, i |-> 0, current_location |-> NoRoom]
    /\ warnings = <<>>
    /\ results = NoResults
    /\ GreedyIdle
    /\ ga = GAIdle
    /\ evaluations = NoEvals
    /\ OptIdle

NextSim ==
    \/ Run
    \/ SimulatorExecute
    \/ NodeExecute
    \/ DetailedExecute
    \/ NextResponder
    \/ SimulatorCollect
    \/ NodeCollect
    \/ DetailedCollect

SpecSim == InitSim /\ [][NextSim]_vars

(***************************************************************************)
(* The three engines on rooms of different check_complexity, with          *)
(* responders of different check_rate and base_check_time                  *)
(***************************************************************************)
\* the connected facility with check_complexity cc[r] for room r
ComplexFacility(cc) ==
    LET b == Facility([r \in Rooms |-> 2], NormalPriority, TRUE, FALSE, FALSE)
    IN  [b EXCEPT !.rooms = [r \in Rooms |-> [b.rooms[r] EXCEPT !.check_complexity = cc[r]]]]

ComplexFacilities == {ComplexFacility(cc) : cc \in [Rooms -> {1, 2}]}

\* capabilities={'check_rate': ..., 'base_check_time': ..., 'walk_speed': 1}
CheckCapabilities ==
    {[walk_speed |-> 1, stair_up_speed |-> 1, stair_down_speed |-> 4,
      check_rate |-> rate, base_check_time |-> base] :
        rate \in {DefaultCheckRate, 2 * DefaultCheckRate},
        base \in {DefaultBaseCheckTime, 2 * DefaultBaseCheckTime}}

InitCheckTime ==
    /\ building \in ComplexFacilities
    /\ engine \in Engines
    /\ graph = EngineGraph(engine, building)
    /\ n_responders \in {1, 2}
    /\ capabilities \in CheckCapabilities
    /\ assignment \in Assignments(n_responders, MaxAssigned)
    /\ responders = ResponderTeam(n_responders,
                                  initial_positions(building, n_responders), capabilities)
    /\ clearance = reset_clearance(building)
    /\ sim = [pc |-> "ready", k |-> 0, i |-> 0, current_location |-> NoRoom]
    /\ warnings = <<>>
    /\ results = NoResults
    /\ GreedyIdle
    /\ ga = GAIdle
    /\ evaluations = NoEvals
    /\ OptIdle

SpecCheckTime == InitCheckTime /\ [][NextSim]_vars

(***************************************************************************)
(* Simulator.run on an assignment that holds every room of the building    *)
(* once, a building without rooms included                                 *)
(***************************************************************************)
\* the lists without repetition of rooms of S
Orderings(S) == UNION {Perms(T) : T \in SUBSET S}

\* the assignments for n responders that hold every room of b exactly once
PartitionAssignments(b, n) ==
    {a \in [1..n -> Orderings(DOMAIN b.rooms)] :
        /\ UNION {Range(a[k]) : k \in 1..n} = DOMAIN b.rooms
        /\ \A j, k \in 1..n : j # k => Range(a[j]) \cap Range(a[k]) = {}}

\* the buildings swept: those Simulator replays assignments on, and one
\* without rooms
SweepFacilities ==
    CoarseFacilities
    \cup {FirstRooms(Facility([r \in Rooms |-> 2], NormalPriority, TRUE, FALSE, FALSE), 0)}

InitSweep ==
    /\ building \in SweepFacilities
    /\ engine = "Simulator"
    /\ graph = EngineGraph(engine, building)
    /\ n_responders \in 1..MaxResponders
    /\ capabilities \in Capabilities
    /\ assignment \in PartitionAssignments(building, n_responders)
    /\ responders = ResponderTeam(n_responders,
                                  initial_positions(building, n_responders), capabilities)
    /\ clearance = reset_clearance(building)
    /\ sim = [pc |-> "ready", k |-> 0, i |-> 0, current_location |-> NoRoom]
    /\ warnings = <<>>
    /\ results = NoResults
    /\ GreedyIdle
    /\ ga = GAIdle
    /\ evaluations = NoEvals
    /\ OptIdle

NextSweep ==
    \/ Run
    \/ SimulatorExecute
    \/ NextResponder
    \/ SimulatorCollect
    \/ SimulatorCollectRaises

SpecSweep == InitSweep /\ [][NextSweep]_vars

(***************************************************************************)
(* GeneticOptimizer (algorithms/genetic.py)                                *)
(***************************************************************************)
FloatInf == Inf             \* float('inf')
NoSolution == <<>>          \* best_solution = None
Genes(m) == 0..(m - 1)
\* the shuffles of list(range(len(self.room_ids))) for m rooms
Chromosomes(m) == Perms(Genes(m))

\* Simulator.run_quick: the outcome of the one iteration of the room loop
SimulatorRoomOutcome(b, g, r, cl, current_location, room_id) ==
    CHOOSE out \in SimulatorRoom(b, g, r, cl, current_location, room_id) : TRUE

RECURSIVE execute_path(_, _, _, _, _, _)
\* Simulator._execute_path from the i-th room of room_ids on, for responder k
execute_path(b, g, state, k, room_ids, i) ==
    IF i > Len(room_ids) THEN state
    ELSE CHOOSE final \in
             {execute_path(b, g, next, k, room_ids, i + 1) :
                 next \in {[responders |-> [state.responders EXCEPT ![k] = out.responder],
                            clearance |-> out.clearance,
                            warnings |-> state.warnings \o out.warning,
                            current_location |-> out.current_location] :
                           out \in {SimulatorRoomOutcome(b, g, state.responders[k],
                                                         state.clearance,
                                                         state.current_location,
                                                         room_ids[i])}}} : TRUE

RECURSIVE execute_team(_, _, _, _, _)
\* Simulator.run: "for responder in self.team" from responder k on
execute_team(b, g, state, a, k) ==
    IF k > Len(state.responders) THEN state
    ELSE CHOOSE final \in
             {execute_team(b, g, next, a, k + 1) :
                 next \in {execute_path(b, g, start, k, room_ids, 1) :
                              start \in {[state EXCEPT !.current_location =
                                                          state.responders[k].position]},
                              room_ids \in {a[k]}}} : TRUE

\* Simulator.run_quick(building, team, assignment): the results with the team
\* and the clearance the run leaves behind
run_quick(b, g, team, a) ==
    LET times(final) ==
            [k \in DOMAIN final.responders |-> final.responders[k].current_time]
    IN  CHOOSE ran \in
            {[results |-> collect_results(final.responders, final.clearance,
                                          load_balance(times(final))),
              responders |-> final.responders,
              clearance |-> final.clearance,
              warnings |-> final.warnings] :
             final \in {execute_team(b, g, start, assigned, 1) :
                          start \in {[responders |-> reset_all(team),
                                      clearance |-> reset_clearance(b),
                                      warnings |-> <<>>, current_location |-> NoRoom]},
                          assigned \in {a}}} : TRUE

\* _chromosome_to_assignment: "i // rooms_per_responder" raises
\* ZeroDivisionError for a chromosome that is not empty and shorter than the
\* team
DecodeRaises(chromosome, n) == chromosome # <<>> /\ Len(chromosome) \div n = 0

\* the decoding without the "min(..., n_responders - 1)" of the responder id
chromosome_to_assignment_unclamped(chromosome, n) ==
    LET rooms_per_responder == Len(chromosome) \div n
        responder_id(i) == (i \div rooms_per_responder) + 1
        RECURSIVE Block(_, _)
        Block(k, i) ==
            IF i >= Len(chromosome) THEN <<>>
            ELSE (IF responder_id(i) = k THEN <<RoomNames[chromosome[i + 1] + 1]>> ELSE <<>>)
                 \o Block(k, i + 1)
    IN  [k \in 1..n |-> Block(k, 0)]

\* GeneticOptimizer._chromosome_to_assignment when it does not raise
chromosome_to_assignment(chromosome, n) ==
    LET rooms_per_responder == Len(chromosome) \div n
        responder_id(i) == Min({i \div rooms_per_responder, n - 1}) + 1
        RECURSIVE Block(_, _)
        Block(k, i) ==
            IF i >= Len(chromosome) THEN <<>>
            ELSE (IF responder_id(i) = k THEN <<RoomNames[chromosome[i + 1] + 1]>> ELSE <<>>)
                 \o Block(k, i + 1)
    IN  [k \in 1..n |-> Block(k, 0)]

\* 2 * np.std(times) for one or two times: np.std([t1, t2]) is |t1 - t2| / 2
TwiceStd(times) ==
    IF Len(times) = 1 THEN 0
    ELSE IF times[1] >= times[2] THEN times[1] - times[2] ELSE times[2] - times[1]

\* GeneticOptimizer._evaluate_fitness when the decoding does not raise, with
\* the team and the clearance the simulation leaves behind; an exception of
\* run_quick is caught and scored float('inf')
evaluate_fitness(b, g, team, chromosome) ==
    CHOOSE evaluated \in
        {[fitness |-> IF CollectRaises(b) THEN FloatInf
                      ELSE ran.results.total_time + TwiceStd(ran.results.responder_times),
          responders |-> ran.responders, clearance |-> ran.clearance] :
         ran \in {run_quick(b, g, team,
                            chromosome_to_assignment(chromosome, Len(team)))}} : TRUE

\* np.argmin: the first index of the least value
argmin(values) ==
    CHOOSE j \in DOMAIN values :
        /\ \A k \in DOMAIN values : values[j] <= values[k]
        /\ \A k \in 1..(j - 1) : values[k] > values[j]

\* random.sample(range(n), k): k distinct indices in any order
sample(n, k) ==
    {s \in [1..k -> 1..n] : \A x, y \in 1..k : x # y => s[x] # s[y]}

RECURSIVE Fill(_, _, _, _)
\* GeneticOptimizer._fill_child: the loop over the genes, child written at
\* pos % size; the genes and positions of the code are 0-based
Fill(child, genes, j, pos) ==
    IF j > Len(genes) THEN child
    ELSE IF genes[j] \notin (Range(child) \ {-1})
         THEN Fill([child EXCEPT ![(pos % Len(child)) + 1] = genes[j]], genes, j + 1, pos + 1)
         ELSE Fill(child, genes, j + 1, pos)

\* a fill that starts writing at the front of the child, not at start_pos
fill_child_from_front(child, parent, start_pos) ==
    Fill(child, SubSeq(parent, start_pos + 1, Len(parent)) \o SubSeq(parent, 1, start_pos),
         1, 0)

\* GeneticOptimizer._fill_child(child, parent, start_pos)
fill_child(child, parent, start_pos) ==
    Fill(child, SubSeq(parent, start_pos + 1, Len(parent)) \o SubSeq(parent, 1, start_pos),
         1, start_pos)

\* GeneticOptimizer._crossover with the crossover points drawn
crossover(parent1, parent2, cx_point1, cx_point2) ==
    LET size == Len(parent1)
        segment(p) == [j \in 1..size |->
                          IF cx_point1 < j /\ j <= cx_point2 THEN p[j] ELSE -1]
    IN  <<fill_child(segment(parent1), parent2, cx_point2),
          fill_child(segment(parent2), parent1, cx_point2)>>

\* a mutation that copies the gene at idx2 over the gene at idx1
mutate_overwrite(chromosome, idx1, idx2) ==
    [chromosome EXCEPT ![idx1] = chromosome[idx2]]

\* GeneticOptimizer._mutate with the two positions drawn
mutate(chromosome, idx1, idx2) ==
    [chromosome EXCEPT ![idx1] = chromosome[idx2], ![idx2] = chromosome[idx1]]

\* the children a pair of parents can have: crossed over or copied
Offspring(parent1, parent2) ==
    {<<parent1, parent2>>}
    \cup {crossover(parent1, parent2, p, q) :
            <<p, q>> \in {c \in (0..(Len(parent1) - 1)) \X (1..Len(parent1)) : c[1] < c[2]}}

\* what the mutation step can make of a child: itself or a swap
Mutants(child) ==
    {child} \cup {mutate(child, s[1], s[2]) : s \in sample(Len(child), 2)}

\* GeneticOptimizer.__init__ and optimize() up to the loop: the population of
\* _initialize_population, nothing evaluated yet
GAStart(population) ==
    [pc |-> "evaluate", generation |-> 0, population |-> population,
     population_size |-> Len(population), generations |-> Generations,
     fitness_scores |-> <<>>, selected |-> <<>>, next_population |-> <<>>, i |-> 0,
     best_solution |-> NoSolution, best_fitness |-> FloatInf, fitness_history |-> <<>>,
     returned |-> <<>>]

\* the tracking of the best with the comparison left out
TrackLatest(g, fitness_scores) ==
    LET min_fitness_idx == argmin(fitness_scores)
    IN  [g EXCEPT !.best_fitness = fitness_scores[min_fitness_idx],
                  !.best_solution = g.population[min_fitness_idx],
                  !.fitness_history = Append(@, fitness_scores[min_fitness_idx])]

\* optimize(): "Track best" and the append to fitness_history
TrackBest(g, fitness_scores) ==
    LET min_fitness_idx == argmin(fitness_scores)
        improved == fitness_scores[min_fitness_idx] < g.best_fitness
        best_fitness == IF improved THEN fitness_scores[min_fitness_idx]
                        ELSE g.best_fitness
    IN  [g EXCEPT !.best_fitness = best_fitness,
                  !.best_solution = IF improved THEN g.population[min_fitness_idx] ELSE @,
                  !.fitness_history = Append(@, best_fitness)]

gaConfig == <<building, graph, n_responders, capabilities, greedyVars, evaluations, optVars,
              engine, assignment, sim, warnings, results>>

\* optimize(): one generation's "Evaluate fitness" and "Track best"
GAEvaluate ==
    /\ ga.pc = "evaluate" /\ ga.generation < ga.generations
    /\ \A j \in DOMAIN ga.population : ~DecodeRaises(ga.population[j], n_responders)
    /\ LET RECURSIVE Evaluated(_)
           Evaluated(j) ==
               IF j = 0 THEN <<>>
               ELSE Append(Evaluated(j - 1),
                           evaluate_fitness(building, graph, responders, ga.population[j]))
       IN  \E evals \in {Evaluated(Len(ga.population))} :
           \E fitness_scores \in {[j \in DOMAIN evals |-> evals[j].fitness]} :
               /\ ga' = [TrackBest(ga, fitness_scores) EXCEPT
                            !.fitness_scores = fitness_scores,
                            !.selected = <<>>, !.pc = "select"]
               /\ responders' = evals[Len(evals)].responders
               /\ clearance' = evals[Len(evals)].clearance
    /\ UNCHANGED gaConfig

\* optimize(): "Evaluate fitness" when _chromosome_to_assignment raises for
\* a chromosome: the exception leaves _evaluate_fitness and optimize; the
\* chromosomes before it have been evaluated
GAEvaluateRaises ==
    /\ ga.pc = "evaluate" /\ ga.generation < ga.generations
    /\ \E j \in DOMAIN ga.population :
          /\ DecodeRaises(ga.population[j], n_responders)
          /\ \A k \in 1..(j - 1) : ~DecodeRaises(ga.population[k], n_responders)
          /\ ga' = [ga EXCEPT !.pc = "raised"]
          /\ IF j = 1 THEN UNCHANGED <<responders, clearance>>
             ELSE LET last == evaluate_fitness(building, graph, responders,
                                               ga.population[j - 1])
                  IN  responders' = last.responders /\ clearance' = last.clearance
    /\ UNCHANGED gaConfig

\* _selection: one tournament of three
GATournament ==
    /\ ga.pc = "select"
    /\ \E contestants_idx \in sample(Len(ga.population), 3) :
          LET contestants_fitness == [j \in 1..3 |-> ga.fitness_scores[contestants_idx[j]]]
              winner_idx == contestants_idx[argmin(contestants_fitness)]
              selected == Append(ga.selected, ga.population[winner_idx])
          IN  ga' = IF Len(selected) < Len(ga.population)
                    THEN [ga EXCEPT !.selected = selected]
                    ELSE [ga EXCEPT !.selected = selected, !.pc = "breed",
                                    !.i = 0, !.next_population = <<>>]
    /\ UNCHANGED <<gaConfig, responders, clearance>>

\* optimize(): the body of "for i in range(0, len(selected), 2)": crossover or
\* copy, the two mutations, next_population.extend; after the last pair
\* population = next_population[:population_size], and the locals of the
\* generation, which the next one overwrites before reading, are dropped
GABreed ==
    /\ ga.pc = "breed"
    /\ LET parent1 == ga.selected[ga.i + 1]
           parent2 == IF ga.i + 1 < Len(ga.selected) THEN ga.selected[ga.i + 2]
                      ELSE ga.selected[1]
           last_pair == ~(ga.i + 2 < Len(ga.selected))
           extended == UNION {{ga.next_population \o <<child1, child2>> :
                                  <<child1, child2>> \in Mutants(children[1])
                                                         \X Mutants(children[2])} :
                              children \in Offspring(parent1, parent2)}
           outcomes == IF last_pair
                       THEN {SubSeq(x, 1, Min({ga.population_size, Len(x)})) : x \in extended}
                       ELSE extended
       IN  \E next_population \in outcomes :
               ga' = IF ~last_pair
                     THEN [ga EXCEPT !.next_population = next_population,
                                     !.i = @ + 2]
                     ELSE [ga EXCEPT !.population = next_population,
                                     !.fitness_scores = <<>>, !.selected = <<>>,
                                     !.next_population = <<>>, !.i = 0,
                                     !.generation = @ + 1, !.pc = "evaluate"]
    /\ UNCHANGED <<gaConfig, responders, clearance>>

\* optimize(): return self._chromosome_to_assignment(self.best_solution)
GAReturn ==
    /\ ga.pc = "evaluate" /\ ga.generation = ga.generations
    /\ ga.best_solution # NoSolution
    /\ ga' = [ga EXCEPT !.pc = "done",
                        !.returned = chromosome_to_assignment(ga.best_solution, n_responders)]
    /\ UNCHANGED <<gaConfig, responders, clearance>>

\* _selection: random.sample(range(len(population)), tournament_size) raises
\* ValueError for a population of fewer than three, and optimize with it
GATournamentRaises ==
    /\ ga.pc = "select"
    /\ sample(Len(ga.population), 3) = {}
    /\ ga' = [ga EXCEPT !.pc = "raised"]
    /\ UNCHANGED <<gaConfig, responders, clearance>>

\* optimize(): the return when best_solution is still None:
\* _chromosome_to_assignment(None) raises TypeError at len(chromosome)
GAReturnRaises ==
    /\ ga.pc = "evaluate" /\ ga.generation = ga.generations
    /\ ga.best_solution = NoSolution
    /\ ga' = [ga EXCEPT !.pc = "raised"]
    /\ UNCHANGED <<gaConfig, responders, clearance>>

\* the facilities of NRooms rooms the genetic optimizer is run on: the last
\* room may have no connection
GAFullFacilities ==
    {Facility(rw, NormalPriority, TRUE, FALSE, FALSE) :
        rw \in {w \in [Rooms -> {0} \cup Weights] :
                   /\ w[RoomList[1]] = 2
                   /\ \A i \in 2..(NRooms - 1) : w[RoomList[i]] = 4
                   /\ w[RoomList[NRooms]] # 2}}

\* the facilities the genetic optimizer is run on: those, and one of a single
\* room
GAFacilities ==
    GAFullFacilities
    \cup {FirstRooms(Facility([r \in Rooms |-> 2], NormalPriority, TRUE, FALSE, FALSE), 1)}

GATeamSizes == {2}

\* _initialize_population: population_size shuffles of range(len(room_ids)),
\* the last of them leaving the list in order
InitialPopulations(m) ==
    {population \in [1..PopulationSize -> Chromosomes(m)] :
        \A i \in 1..m : population[PopulationSize][i] = i - 1}

InitGA ==
    /\ building \in GAFacilities
    /\ graph = BuildingGraph(building)
    /\ n_responders \in GATeamSizes
    /\ capabilities \in {c \in Capabilities : c.walk_speed = 2}
    /\ responders = ResponderTeam(n_responders,
                                  initial_positions(building, n_responders), capabilities)
    /\ clearance = reset_clearance(building)
    /\ ga \in {GAStart(population) :
                   population \in InitialPopulations(Len(RoomIds(building)))}
    /\ evaluations = NoEvals
    /\ OptIdle
    /\ engine = "Simulator"
    /\ assignment = <<>>
    /\ sim = Idle
    /\ warnings = <<>>
    /\ results = NoResults
    /\ GreedyIdle

NextGA ==
    \/ GAEvaluate
    \/ GAEvaluateRaises
    \/ GATournament
    \/ GABreed
    \/ GAReturn

SpecGA == InitGA /\ [][NextGA]_vars

(***************************************************************************)
(* GreedyOptimizer constructed with any n_responders: __init__ compares    *)
(* the number with nothing; for n_responders <= 0 exits[:n_responders]     *)
(* gives the positions and ResponderTeam builds range(n_responders), no    *)
(* responder                                                               *)
(***************************************************************************)
AgentCounts == {-1, 0, 1}

\* the buildings of the configurations: connected ones and one without rooms
ConfigFacilities ==
    {Facility(rw, NormalPriority, TRUE, FALSE, FALSE) : rw \in [Rooms -> Weights]}
    \cup {FirstRooms(Facility([r \in Rooms |-> 2], NormalPriority, TRUE, FALSE, FALSE), 0)}

InitConfig ==
    /\ building \in ConfigFacilities
    /\ graph = BuildingGraph(building)
    /\ n_responders \in AgentCounts
    /\ capabilities \in Capabilities
    /\ strategy = "nearest"
    /\ runs = [x \in Runs |-> GreedyStart(building, n_responders)]
    /\ SimIdle
    /\ ga = GAIdle
    /\ evaluations = NoEvals
    /\ OptIdle

NextConfig ==
    \E x \in Runs : NearestStep(x) \/ GreedyReturn(x)

SpecConfig == InitConfig /\ [][NextConfig]_vars

(***************************************************************************)
(* TopDownOptimizer (algorithms/top_down_optimizer.py)                     *)
(***************************************************************************)
\* a building of n_floors floors whose room r is on floor floor[r], which
\* Building.add_room does not compare with n_floors
MultiFloorFacility(n_floors, floor, prio) ==
    [rooms |-> [r \in Rooms |-> Room(RoomIndex(r), floor[r], prio[r], 2)],
     n_floors |-> n_floors,
     exits |-> ExitList,
     exit_floor |-> [e \in Exits |-> 1],
     corridor_floor |-> 1,
     connections |->
         UNION {add_connection(r, Corridor, 2) : r \in Rooms}
         \cup add_connection(Corridor, "E1", 0)
         \cup add_connection(Corridor, "E2", 0)]

MultiFloorFacilities ==
    {MultiFloorFacility(n_floors, floor, prio) :
        n_floors \in 1..MaxFloors, floor \in [Rooms -> 0..(MaxFloors + 1)],
        prio \in [Rooms -> {1, 3}]}

\* sorted(range(1, n_floors + 1)), ascending
floors_asc(n_floors) == [i \in 1..n_floors |-> i]

\* sorted(range(1, self.building.n_floors + 1), reverse=True)
floors_desc(n_floors) == [i \in 1..n_floors |-> n_floors + 1 - i]

RECURSIVE FloorRooms(_, _, _)
\* [r for r in self.building.rooms.values() if r.floor == floor], sorted by
\* key (stable, from dict order), from the first i rooms
FloorRooms(b, floor, i) ==
    IF i = 0 THEN <<>>
    ELSE LET room == b.rooms[RoomIds(b)[i]]
             before == FloorRooms(b, floor, i - 1)
         IN  IF room.floor = floor THEN InsertSorted(before, room) ELSE before

\* rooms_by_floor[floor]
rooms_by_floor(b, floor) == FloorRooms(b, floor, Len(RoomIds(b)))

RECURSIVE Deal(_, _, _, _)
\* for room in rooms_by_floor[floor]: the room goes to responder
\* (responder_idx % n_responders) + 1 and responder_idx goes up by one
Deal(a, rooms, responder_idx, n) ==
    IF rooms = <<>> THEN a
    ELSE Deal([a EXCEPT ![(responder_idx % n) + 1] = Append(@, Head(rooms).id)],
              Tail(rooms), responder_idx + 1, n)

TopDownStart ==
    [pc |-> "start", floors |-> <<>>, responder_idx |-> 0, assignment |-> <<>>]

TopDownUnchanged ==
    UNCHANGED <<building, graph, n_responders, capabilities, greedyVars, simVars,
                gaVars, smart>>

\* optimize() with n_floors == 1: _optimize_single_floor
OptimizeSingleFloor ==
    /\ topdown.pc = "start" /\ building.n_floors = 1
    /\ topdown' = [topdown EXCEPT
                      !.pc = "done",
                      !.assignment = RoundRobin(SortedRooms(building,
                                                     Len(RoomIds(building))),
                                                n_responders)]
    /\ TopDownUnchanged

\* optimize() otherwise: _optimize_top_down up to the distribution loop
OptimizeTopDown ==
    /\ topdown.pc = "start" /\ building.n_floors # 1
    /\ topdown' = [topdown EXCEPT
                      !.pc = "deal",
                      !.floors = floors_desc(building.n_floors),
                      !.assignment = [k \in 1..n_responders |-> <<>>]]
    /\ TopDownUnchanged

\* _optimize_top_down: one iteration of "for floor in floors_desc"
TopDownFloor ==
    /\ topdown.pc = "deal" /\ topdown.floors # <<>>
    /\ LET floor_rooms == rooms_by_floor(building, Head(topdown.floors))
       IN  topdown' = [topdown EXCEPT
                         !.floors = Tail(@),
                         !.responder_idx = @ + Len(floor_rooms),
                         !.assignment = Deal(@, floor_rooms, topdown.responder_idx,
                                             n_responders)]
    /\ TopDownUnchanged

\* _optimize_top_down: return assignment
TopDownReturn ==
    /\ topdown.pc = "deal" /\ topdown.floors = <<>>
    /\ topdown' = [topdown EXCEPT !.pc = "done"]
    /\ TopDownUnchanged

InitTopDown ==
    /\ building \in MultiFloorFacilities
    /\ graph = BuildingGraph(building)
    /\ n_responders \in 1..MaxResponders
    /\ capabilities \in {c \in Capabilities : c.walk_speed = 1}
    /\ topdown = TopDownStart
    /\ smart = SmartIdle
    /\ GreedyIdle
    /\ SimIdle
    /\ ga = GAIdle
    /\ evaluations = NoEvals

NextTopDown ==
    \/ OptimizeSingleFloor
    \/ OptimizeTopDown
    \/ TopDownFloor
    \/ TopDownReturn

SpecTopDown == InitTopDown /\ [][NextTopDown]_vars

(***************************************************************************)
(* SmartOptimizer (algorithms/smart_optimizer.py)                          *)
(***************************************************************************)
\* a single-floor building whose room i has priority prio[i], every room
\* joined to the corridor
PriorityFacility(prio) ==
    LET ids == {RoomNames[i] : i \in DOMAIN prio}
    IN  [rooms |-> [r \in ids |-> Room(RoomIndex(r), 1, prio[RoomIndex(r)], 2)],
         exits |-> ExitList,
         exit_floor |-> [e \in Exits |-> 1],
         corridor_floor |-> 1,
         connections |->
             UNION {add_connection(r, Corridor, 2) : r \in ids}
             \cup add_connection(Corridor, "E1", 0)
             \cup add_connection(Corridor, "E2", 0)]

PriorityFacilities ==
    {PriorityFacility(prio) : prio \in SeqsUpTo({1, 2, 3}, MaxSmartRooms)}

\* the rooms of priority >= level
RoomsOfPriority(b, level) == {r \in DOMAIN b.rooms : b.rooms[r].priority >= level}

\* the decision of _select_strategy without the test of high_priority_ratio
select_without_high_ratio(b) ==
    LET total == Cardinality(DOMAIN b.rooms)
        critical == Cardinality(RoomsOfPriority(b, 3))
    IN  IF total > 0 /\ 5 * critical > total THEN "priority"
        ELSE IF critical > 0 THEN "priority"
        ELSE "balanced"

\* SmartOptimizer._select_strategy: the strategy. The ratios are 0 for a
\* building without rooms; critical_ratio > 0.2 is 5 * critical > total and
\* high_priority_ratio > 0.3 is 10 * high > 3 * total.
select_strategy(b) ==
    LET total == Cardinality(DOMAIN b.rooms)
        high == Cardinality(RoomsOfPriority(b, 2))
        critical == Cardinality(RoomsOfPriority(b, 3))
    IN  IF total > 0 /\ 5 * critical > total THEN "priority"
        ELSE IF total > 0 /\ 10 * high > 3 * total THEN "priority"
        ELSE IF critical > 0 THEN "priority"
        ELSE "balanced"

\* SmartOptimizer._select_strategy: self.analysis
analysis(b, selected) ==
    [strategy |-> selected,
     stats |-> [total_rooms |-> Cardinality(DOMAIN b.rooms),
                high_priority_rooms |-> Cardinality(RoomsOfPriority(b, 2)),
                critical_rooms |-> Cardinality(RoomsOfPriority(b, 3))]]

\* SmartOptimizer.__init__: select the strategy and create the
\* GreedyOptimizer with it
SmartConstruct ==
    /\ smart.pc = "new"
    /\ LET selected == select_strategy(building)
       IN  /\ smart' = [pc |-> "constructed", selected_strategy |-> selected,
                        analysis |-> analysis(building, selected)]
           /\ strategy' = selected
    /\ runs' = [x \in Runs |-> GreedyStart(building, n_responders)]
    /\ UNCHANGED <<building, graph, n_responders, capabilities, simVars, gaVars, topdown>>

InitSmart ==
    /\ building \in PriorityFacilities
    /\ graph = BuildingGraph(building)
    /\ n_responders \in {1, 2}
    /\ capabilities \in {c \in Capabilities : c.walk_speed = 1}
    /\ smart = [pc |-> "new"]
    /\ topdown = TopDownIdle
    /\ strategy = "nearest"
    /\ runs = [x \in Runs |-> [pc |-> "uncalled"]]
    /\ SimIdle
    /\ ga = GAIdle
    /\ evaluations = NoEvals

\* SmartOptimizer.optimize is GreedyOptimizer.optimize of the optimizer
\* created
NextSmart ==
    \/ SmartConstruct
    \/ BalancedStep("A")
    \/ GreedyReturn("A")
    \/ PriorityRun("A")

SpecSmart == InitSmart /\ [][NextSmart]_vars

(***************************************************************************)
(* The basic scenario (tests/test_basic_scenario.py, test_full_workflow):  *)
(* Building.create_simple(n_rooms=6), GreedyOptimizer with 2 responders,   *)
(* the balanced strategy and the default capabilities, then                *)
(* Simulator.run_quick on the assignment. Lengths are in half metres, so   *)
(* that the default walk speed of 1.5 m/s is the integer 3 and every       *)
(* travel time of the scenario is exact.                                   *)
(***************************************************************************)
ScenarioRooms == 6          \* create_simple(n_rooms=6)
ScenarioResponders == 2     \* n_responders=2
DefaultWalkSpeed == 3       \* walk_speed = 1.5 m/s, in half metres per second
CorridorLength == 60        \* corridor_length = 30 m, in half metres
HalfMetres(d) == 2 * d

\* Building.create_simple(n_rooms), layout 'two_sided_corridor': n_rooms // 2
\* rooms on each side of the corridor, every room joined to C_main over
\* |x - 15| + 2 metres, both exits joined to C_main at distance 0
create_simple(n_rooms) ==
    LET rooms_per_side == n_rooms \div 2
        spacing == CorridorLength \div (rooms_per_side + 1)
        side(i) == IF i <= rooms_per_side THEN i ELSE i - rooms_per_side
        x(i) == IF i <= rooms_per_side THEN HalfMetres(5) ELSE HalfMetres(25)
        distance(i) == (IF x(i) >= HalfMetres(15) THEN x(i) - HalfMetres(15)
                        ELSE HalfMetres(15) - x(i)) + HalfMetres(2)
        ids == {RoomNames[i] : i \in 1..(2 * rooms_per_side)}
    IN  [rooms |-> [r \in ids |->
                      [id |-> r, area |-> DefaultArea,
                       position |-> <<x(RoomIndex(r)), spacing * side(RoomIndex(r))>>,
                       floor |-> 1, priority |-> 1, check_complexity |-> 1,
                       door_distance |-> distance(RoomIndex(r))]],
         exits |-> ExitList,
         exit_floor |-> [e \in Exits |-> 1],
         corridor_floor |-> 1,
         connections |->
             UNION {add_connection(r, Corridor, distance(RoomIndex(r))) : r \in ids}
             \cup add_connection(Corridor, "E1", 0)
             \cup add_connection(Corridor, "E2", 0)]

\* Responder.__init__: the default capabilities
DefaultCapabilities ==
    [walk_speed |-> DefaultWalkSpeed, stair_up_speed |-> 1, stair_down_speed |-> 4,
     check_rate |-> DefaultCheckRate, base_check_time |-> DefaultBaseCheckTime]

\* team = optimizer.get_team(); Simulator.run_quick(building, team, assignment):
\* the Simulator is given the assignment optimize() returned
ScenarioSimulate ==
    /\ runs["A"].pc = "done" /\ sim.pc = "idle"
    /\ assignment' = runs["A"].assignment
    /\ responders' = ResponderTeam(n_responders,
                                   initial_positions(building, n_responders), capabilities)
    /\ clearance' = reset_clearance(building)
    /\ sim' = [sim EXCEPT !.pc = "ready"]
    /\ UNCHANGED <<building, graph, n_responders, capabilities, greedyVars, gaVars, optVars,
                   engine, warnings, results>>

InitScenario ==
    /\ building = create_simple(ScenarioRooms)
    /\ graph = BuildingGraph(building)
    /\ n_responders = ScenarioResponders
    /\ capabilities = DefaultCapabilities
    /\ strategy = "balanced"
    /\ runs = [x \in Runs |-> IF x = "A" THEN GreedyStart(building, n_responders)
                              ELSE [GreedyStart(building, n_responders)
                                       EXCEPT !.pc = "uncalled"]]
    /\ SimIdle
    /\ ga = GAIdle
    /\ evaluations = NoEvals
    /\ OptIdle

NextScenario ==
    \/ BalancedStep("A")
    \/ GreedyReturn("A")
    \/ ScenarioSimulate
    \/ Run
    \/ SimulatorExecute
    \/ NextResponder
    \/ SimulatorCollect

SpecScenario == InitScenario /\ [][NextScenario]_vars

(***************************************************************************)
(* Two calls of GeneticOptimizer._evaluate_fitness whose steps interleave. *)
(* Both work on self.building and self.team, the objects of the optimizer; *)
(* the chromosome, the assignment, the Simulator and the locals of         *)
(* _execute_path belong to the call.                                       *)
(***************************************************************************)
Evaluations == {1, 2}

Called(chromosome) ==
    [pc |-> "called", chromosome |-> chromosome, assignment |-> <<>>,
     k |-> 0, i |-> 0, current_location |-> NoRoom, fitness |-> FloatInf]

EvalUnchanged ==
    UNCHANGED <<building, graph, n_responders, capabilities, greedyVars, ga, optVars,
                engine, assignment, sim, warnings, results>>

\* _evaluate_fitness up to the first responder of Simulator.run: decode the
\* chromosome, reset the building and the team
EvalRun(t) ==
    /\ evaluations[t].pc = "called"
    /\ ~DecodeRaises(evaluations[t].chromosome, n_responders)
    /\ clearance' = reset_clearance(building)
    /\ responders' = reset_all(responders)
    /\ evaluations' = [evaluations EXCEPT ![t] =
                    [@ EXCEPT !.pc = "executing",
                              !.assignment = chromosome_to_assignment(evaluations[t].chromosome,
                                                                      n_responders),
                              !.k = 1, !.i = 1,
                              !.current_location = responders'[1].position]]
    /\ EvalUnchanged

\* Simulator._execute_path: one iteration of "for room_id in room_ids"
EvalRoom(t) ==
    LET e == evaluations[t]
    IN  /\ e.pc = "executing" /\ e.i <= Len(e.assignment[e.k])
        /\ \E out \in SimulatorRoom(building, graph, responders[e.k], clearance,
                                    e.current_location, e.assignment[e.k][e.i]) :
              /\ responders' = [responders EXCEPT ![e.k] = out.responder]
              /\ clearance' = out.clearance
              /\ evaluations' = [evaluations EXCEPT ![t] =
                              [@ EXCEPT !.i = @ + 1,
                                        !.current_location = out.current_location]]
        /\ EvalUnchanged

\* Simulator.run: the next responder starts from its position
EvalNextResponder(t) ==
    LET e == evaluations[t]
    IN  /\ e.pc = "executing" /\ e.i > Len(e.assignment[e.k])
        /\ e.k < Len(responders)
        /\ evaluations' = [evaluations EXCEPT ![t] =
                        [@ EXCEPT !.k = @ + 1, !.i = 1,
                                  !.current_location = responders[e.k + 1].position]]
        /\ UNCHANGED <<responders, clearance>>
        /\ EvalUnchanged

\* Simulator._collect_results and the rest of _evaluate_fitness
EvalReturn(t) ==
    LET e == evaluations[t]
        times == [k \in DOMAIN responders |-> responders[k].current_time]
    IN  /\ e.pc = "executing" /\ e.i > Len(e.assignment[e.k])
        /\ e.k = Len(responders)
        /\ evaluations' = [evaluations EXCEPT ![t] =
                        [@ EXCEPT !.pc = "returned",
                                  !.fitness = IF CollectRaises(building) THEN FloatInf
                                              ELSE get_max_time(responders)
                                                   + TwiceStd(times)]]
        /\ UNCHANGED <<responders, clearance>>
        /\ EvalUnchanged

\* the facilities the two calls evaluate on: the last room joined to the
\* corridor or not
FitnessFacilities == GAFullFacilities

InitFitness ==
    /\ building \in FitnessFacilities
    /\ graph = BuildingGraph(building)
    /\ n_responders \in GATeamSizes
    /\ capabilities \in {c \in Capabilities : c.walk_speed = 2}
    /\ responders = ResponderTeam(n_responders,
                                  initial_positions(building, n_responders), capabilities)
    /\ clearance = reset_clearance(building)
    /\ evaluations \in [Evaluations -> {Called(c) : c \in Chromosomes(Len(RoomIds(building)))}]
    /\ OptIdle
    /\ ga = GAIdle
    /\ engine = "Simulator"
    /\ assignment = <<>>
    /\ sim = Idle
    /\ warnings = <<>>
    /\ results = NoResults
    /\ GreedyIdle

NextFitness ==
    \E t \in Evaluations :
        \/ EvalRun(t)
        \/ EvalRoom(t)
        \/ EvalNextResponder(t)
        \/ EvalReturn(t)

SpecFitness == InitFitness /\ [][NextFitness]_vars

(***************************************************************************)
(* Claims about the greedy optimizer family                                *)
(***************************************************************************)
\* every room reachable from every exit
Connected ==
    \A r \in DOMAIN building.rooms : \A e \in Range(building.exits) :
        PathLength(graph, e, r, {e}) < Inf

\* the places (responder, index) at which room r occurs in assignment a
Occurrences(a, r) ==
    {p \in UNION {{<<k, i>> : i \in DOMAIN a[k]} : k \in DOMAIN a} : a[p[1]][p[2]] = r}

\* C1: on a connected facility, for every number of responders >= 1 and each
\* of the strategies nearest, priority and balanced, the assignment optimize
\* returns holds every room of the facility exactly once: in one responder's
\* sequence, and once there.
GreedyPartition ==
    \A x \in Runs :
        (runs[x].pc = "done" /\ Connected) =>
            /\ DOMAIN runs[x].assignment = 1..n_responders
            /\ \A r \in DOMAIN building.rooms :
                   Cardinality(Occurrences(runs[x].assignment, r)) = 1

\* a connected facility on which a run of the balanced strategy with two
\* responders has returned, each responder holding a room
GreedyPartitionWitness ==
    /\ Connected /\ strategy = "balanced" /\ n_responders = 2
    /\ runs["A"].pc = "done"
    /\ \A k \in 1..n_responders : runs["A"].assignment[k] # <<>>

\* C2: optimize is deterministic: two calls with the same building, responder
\* count, initial positions and strategy return identical assignments, whatever
\* the iteration order of the set of unassigned rooms.
GreedyDeterministic ==
    (Connected /\ runs["A"].pc = "done" /\ runs["B"].pc = "done") =>
        runs["A"].assignment = runs["B"].assignment

(***************************************************************************)
(* Claims about the simulation engines                                     *)
(***************************************************************************)
\* the node of the engine's graph that stands for a location id
NodeOf(x) ==
    IF engine = "NodeSimulator" /\ x \in DOMAIN building.rooms THEN center(x) ELSE x

\* the engine is about to replay a room to which its graph has no path from
\* the responder's current location
AtUnreachableRoom ==
    /\ AtRoom
    /\ shortest_paths(graph, NodeOf(sim.current_location),
                      NodeOf(assignment[sim.k][sim.i])) = {}

SkippedRooms == {warnings[j][2] : j \in DOMAIN warnings}

\* the step leaves the responder, the clearance of every room and the current
\* location as they are and goes on to the next room of the sequence
SkipsRoom ==
    /\ responders' = responders
    /\ clearance' = clearance
    /\ sim' = [sim EXCEPT !.i = @ + 1]

\* C3 as claimed: a room of a responder's sequence that is unreachable from the
\* responder's current location is skipped by Simulator.run without an
\* exception, keeps cleared = false with cleared_at and cleared_by unset, and
\* the run returns success = false.
UnreachableRoomStaysUncleared ==
    (engine = "Simulator" /\ sim.pc = "done") =>
        \A r \in SkippedRooms :
            clearance[r] = NotCleared /\ results.success = FALSE

\* C3 as amended: Simulator.run skips such a room without an exception, the
\* skip changing neither the room's clearance nor the responder's location
\* and elapsed time, and goes on with the next room; a skipped room that
\* occurs only once in the whole assignment is left with cleared = false,
\* cleared_at and cleared_by unset, and the run returns success = false.
UnreachableRoomSkipped ==
    /\ [][(engine = "Simulator" /\ AtUnreachableRoom) => SkipsRoom]_vars
    /\ []((engine = "Simulator" /\ sim.pc = "done") =>
            \A r \in SkippedRooms :
                Cardinality(Occurrences(assignment, r)) = 1 =>
                    clearance[r] = NotCleared /\ results.success = FALSE)

\* a finished Simulator run in which a responder skipped the first room of its
\* sequence and then checked the second
UnreachableRoomSkippedWitness ==
    /\ engine = "Simulator" /\ sim.pc = "done"
    /\ \E k \in DOMAIN assignment :
          /\ Len(assignment[k]) = 2
          /\ assignment[k][1] \in SkippedRooms
          /\ Cardinality(Occurrences(assignment, assignment[k][1])) = 1
          /\ responders[k].rooms_checked = <<assignment[k][2]>>
          /\ results.success = FALSE

\* C4: in no engine is a default distance put in the place of a missing path:
\* when there is no path from the responder's location to the room, the room
\* is not marked cleared, no time is added to the responder, and the condition
\* is reported.
NoDefaultDistance ==
    [][AtUnreachableRoom =>
          /\ clearance' = clearance
          /\ responders'[sim.k].current_time = responders[sim.k].current_time
          /\ warnings' # warnings]_vars

NonDecreasing(timeline) ==
    \A j \in 1..(Len(timeline) - 1) : timeline[j].time <= timeline[j + 1].time

\* C5: in every engine the timeline of every responder begins with a start
\* event at time 0 and the times of consecutive events never decrease.
TimelineNonDecreasing ==
    \A k \in DOMAIN responders :
        /\ responders[k].timeline[1].action = "start"
        /\ responders[k].timeline[1].time = 0
        /\ NonDecreasing(responders[k].timeline)

\* a responder that moved to and checked two rooms, with a timeline of five
\* events ending later than it began
TimelineWitness ==
    /\ sim.pc = "done" /\ engine = "Simulator"
    /\ \E k \in DOMAIN responders :
          /\ Len(responders[k].rooms_checked) = 2
          /\ Len(responders[k].timeline) = 5
          /\ responders[k].timeline[4].time > responders[k].timeline[3].time

\* C6: the total_time of the result of Simulator.run is the greatest of the
\* responders' final elapsed times.
TotalTimeIsMax ==
    (engine = "Simulator" /\ sim.pc = "done") =>
        /\ \A k \in DOMAIN results.responder_times :
               results.responder_times[k] <= results.total_time
        /\ \E k \in DOMAIN results.responder_times :
               results.responder_times[k] = results.total_time

\* a finished run in which the second responder took longest and the first
\* took some time too
TotalTimeWitness ==
    /\ engine = "Simulator" /\ sim.pc = "done" /\ Len(responders) >= 2
    /\ results.responder_times[2] > results.responder_times[1]
    /\ results.responder_times[1] > 0
    /\ results.total_time = results.responder_times[2]

InUnitInterval(lb) == ~lb.nan /\ lb.num <= lb.den
IsOne(lb) == ~lb.nan /\ lb.num = 0

\* C7: the load_balance of every result of Simulator.run lies in [0, 1].
LoadBalanceInUnitInterval ==
    (engine = "Simulator" /\ sim.pc = "done") => InUnitInterval(results.load_balance)

\* C8: the load_balance of a result is 1 exactly when all responders' final
\* elapsed times are equal, the case of all times 0 included.
LoadBalanceOneIffEqual ==
    sim.pc = "done" =>
        (IsOne(results.load_balance) <=>
            \A j, k \in DOMAIN results.responder_times :
                results.responder_times[j] = results.responder_times[k])

(***************************************************************************)
(* Claims about the genetic optimizer                                      *)
(***************************************************************************)
\* the least of a generation's fitness scores
LeastScore(g) == Min(Range(g.fitness_scores))

\* C9: during optimize the fitness_history is non-increasing, and the entry
\* appended for a generation is the least fitness evaluated in all generations
\* so far: the lesser of the previous entry (float('inf') before the first
\* generation) and the least fitness score of the generation just evaluated.
FitnessHistoryNonIncreasing ==
    /\ [](\A j \in 1..(Len(ga.fitness_history) - 1) :
             ga.fitness_history[j + 1] <= ga.fitness_history[j])
    /\ [][Len(ga'.fitness_history) = Len(ga.fitness_history) + 1 =>
             ga'.fitness_history[Len(ga'.fitness_history)] =
                 Min({LeastScore(ga'),
                      IF ga.fitness_history = <<>> THEN FloatInf
                      ELSE ga.fitness_history[Len(ga.fitness_history)]})]_vars

\* the second generation has been evaluated and every chromosome of it is
\* worse than the best of the first generation
FitnessHistoryWitness ==
    /\ ga.pc = "select" /\ Len(ga.fitness_history) = 2
    /\ LeastScore(ga) > ga.fitness_history[1]
    /\ ga.fitness_history[2] = ga.fitness_history[1]

\* the decoded assignment holds a room that its responder cannot reach
HasUnreachableRoom(a) ==
    \E k \in DOMAIN a : \E i \in DOMAIN a[k] :
        PathLength(graph, responders[k].initial_position, a[k][i],
                   {responders[k].initial_position}) = Inf

\* C10: a chromosome whose decoded assignment holds a room that its responder
\* cannot reach is given the fitness float('inf') by _evaluate_fitness.
UnreachableFitnessInfinite ==
    \A j \in DOMAIN ga.fitness_scores :
        HasUnreachableRoom(chromosome_to_assignment(ga.population[j], n_responders)) =>
            ga.fitness_scores[j] = FloatInf

\* C11: _evaluate_fitness never raises: optimize never ends with an exception
\* of the evaluation of a chromosome, a facility with fewer rooms than
\* responders included; such a chromosome is scored float('inf').
EvaluateFitnessNeverRaises == ga.pc # "raised"

\* C12: fitness evaluations are independent: whatever the interleaving of
\* the steps of two evaluations, each returns the fitness it returns when it
\* runs alone.
InterleavedFitnessAsSequential ==
    \A t \in DOMAIN evaluations :
        evaluations[t].pc = "returned"
        => evaluations[t].fitness =
               evaluate_fitness(building, graph, responders, evaluations[t].chromosome).fitness

\* the sum of the check times of all rooms of the building
RECURSIVE SumOfCheckTimes(_)
SumOfCheckTimes(S) ==
    IF S = {} THEN 0
    ELSE LET r == CHOOSE x \in S : TRUE
         IN  calculate_check_time(building.rooms[r], capabilities.base_check_time,
                                  capabilities.check_rate)
             + SumOfCheckTimes(S \ {r})

Simulated == sim.pc = "done" /\ runs # <<>> /\ assignment = runs["A"].assignment

\* C13: for create_simple with 6 rooms, 2 responders and the balanced
\* strategy, the two sequences returned differ in length by at most 1, and
\* the simulation of that assignment succeeds with a total time strictly
\* less than the sum of the check times of the six rooms.
BalancedScenario ==
    /\ (runs # <<>> /\ strategy = "balanced" /\ runs["A"].pc = "done"
        /\ building = create_simple(ScenarioRooms) /\ n_responders = ScenarioResponders)
       => LET a == runs["A"].assignment
          IN  /\ Len(a[1]) - Len(a[2]) \in {-1, 0, 1}
              /\ Len(a[1]) + Len(a[2]) = ScenarioRooms
    /\ (Simulated /\ building = create_simple(ScenarioRooms))
       => /\ results.success
          /\ results.total_time < SumOfCheckTimes(DOMAIN building.rooms)

\* the scenario has been optimized and simulated
BalancedScenarioWitness ==
    /\ Simulated /\ building = create_simple(ScenarioRooms)
    /\ strategy = "balanced" /\ n_responders = ScenarioResponders
    /\ Len(runs["A"].assignment[1]) = 3 /\ Len(runs["A"].assignment[2]) = 3
    /\ results.success /\ results.total_time > 0

\* C14: on a facility of several floors, in every sequence TopDownOptimizer
\* returns (and builds), a room that comes earlier is on a floor at least as
\* high as a room that comes later.
TopDownFloorsNonIncreasing ==
    (topdown.pc \in {"deal", "done"} /\ building.n_floors > 1)
    => \A k \in DOMAIN topdown.assignment :
          \A i, j \in DOMAIN topdown.assignment[k] :
              i < j => building.rooms[topdown.assignment[k][i]].floor
                       >= building.rooms[topdown.assignment[k][j]].floor

\* one responder is given a room of the top floor and then one of the lowest
TopDownWitness ==
    /\ topdown.pc = "done" /\ building.n_floors = MaxFloors
    /\ \E k \in DOMAIN topdown.assignment :
          /\ Len(topdown.assignment[k]) >= 2
          /\ building.rooms[topdown.assignment[k][1]].floor = MaxFloors
          /\ building.rooms[topdown.assignment[k][2]].floor = 1

\* the assignment holds every room of the building exactly once
IsPartition(a) ==
    \A r \in DOMAIN building.rooms : Cardinality(Occurrences(a, r)) = 1

\* responder k completed the check of room r at time t
CheckCompletedAt(k, r, t) ==
    \E e \in DOMAIN responders[k].timeline :
        /\ responders[k].timeline[e].action = "check_complete"
        /\ responders[k].timeline[e].location = r
        /\ responders[k].timeline[e].time = t

\* C15: after Simulator.run on a connected facility with an assignment that
\* holds every room exactly once, every room is cleared, cleared_by is the
\* responder whose sequence holds the room and cleared_at is that
\* responder's elapsed time when it completed the check; and success is true
\* exactly when all rooms are cleared.
SweepClearsEveryRoom ==
    (engine = "Simulator" /\ sim.pc = "done") =>
        /\ results.success <=> \A r \in DOMAIN building.rooms : clearance[r].cleared
        /\ results.room_clearance = clearance
        /\ (Connected /\ IsPartition(assignment)) =>
               \A r \in DOMAIN building.rooms :
                   /\ clearance[r].cleared
                   /\ clearance[r].cleared_by \in DOMAIN assignment
                   /\ r \in Range(assignment[clearance[r].cleared_by])
                   /\ CheckCompletedAt(clearance[r].cleared_by, r, clearance[r].cleared_at)

\* a finished sweep of a connected facility by two responders, one holding
\* two rooms and one holding one, the rooms cleared at three different times
SweepClearsWitness ==
    /\ engine = "Simulator" /\ sim.pc = "done" /\ Connected /\ IsPartition(assignment)
    /\ n_responders = 2 /\ Len(assignment[1]) = 2 /\ Len(assignment[2]) = 1
    /\ results.success
    /\ \A q, r \in DOMAIN building.rooms :
          q # r => clearance[q].cleared_at # clearance[r].cleared_at

\* C16: on a facility without rooms, with a team of at least one responder
\* whose sequences are all empty, Simulator.run raises nothing and returns
\* success = true and total_time = 0.
EmptyFacilitySweeps ==
    (engine = "Simulator" /\ DOMAIN building.rooms = {})
    => /\ sim.pc # "raised"
       /\ sim.pc = "done" => results.success /\ results.total_time = 0

\* C17: an optimizer given a number of responders <= 0 fails before any
\* computation: it never returns an assignment.
InvalidAgentCountRejected ==
    \A x \in DOMAIN runs : n_responders <= 0 => runs[x].pc # "done"

\* a room of the building is on a floor outside 1..n_floors
HasInvalidFloor ==
    \E r \in DOMAIN building.rooms : building.rooms[r].floor \notin 1..building.n_floors

\* C18: from a facility with a room on a floor outside 1..n_floors no graph
\* and no assignment is produced: TopDownOptimizer.optimize does not return.
InvalidFloorRejected ==
    (topdown.pc # "idle" /\ HasInvalidFloor) => topdown.pc # "done"

\* more than `percent` per cent of the rooms have priority >= level
MoreThanPercent(percent, level) ==
    100 * Cardinality(RoomsOfPriority(building, level))
        > percent * Cardinality(DOMAIN building.rooms)

\* C19: SmartOptimizer selects 'priority' exactly when more than 20% of the
\* rooms have priority >= 3, or more than 30% have priority >= 2, or some
\* room has priority >= 3; otherwise, a building without rooms included, it
\* selects 'balanced'; it never selects 'nearest'; and the strategy of
\* get_analysis() is the strategy of the greedy optimizer it wraps.
SmartSelectsStrategy ==
    smart.pc = "constructed" =>
        /\ smart.selected_strategy = "priority"
               <=> \/ MoreThanPercent(20, 3)
                   \/ MoreThanPercent(30, 2)
                   \/ RoomsOfPriority(building, 3) # {}
        /\ smart.selected_strategy \in {"priority", "balanced"}
        /\ DOMAIN building.rooms = {} => smart.selected_strategy = "balanced"
        /\ smart.analysis.strategy = strategy

\* 'priority' selected for two rooms of priority 2 out of four, none critical
SmartSelectsWitness ==
    /\ smart.pc = "constructed" /\ smart.selected_strategy = "priority"
    /\ smart.analysis.stats.total_rooms = 4
    /\ smart.analysis.stats.high_priority_rooms = 2
    /\ smart.analysis.stats.critical_rooms = 0
    /\ runs["A"].pc = "done"

\* C20: the check time of a room is base_time + rate * area *
\* check_complexity, and in every engine the elapsed time of a responder that
\* checks a room goes up by exactly this amount, with the responder's
\* base_check_time and check_rate, from its arrival to the completion of the
\* check.
CheckTimeAdvance ==
    \A k \in DOMAIN responders :
        \A e \in DOMAIN responders[k].timeline :
            responders[k].timeline[e].action = "check_complete" =>
                LET room == building.rooms[responders[k].timeline[e].location]
                    amount == responders[k].base_check_time
                              + responders[k].check_rate * room.area * room.check_complexity
                IN  /\ calculate_check_time(room, responders[k].base_check_time,
                                            responders[k].check_rate) = amount
                    /\ e > 1
                    /\ responders[k].timeline[e - 1].location = room.id
                    /\ responders[k].timeline[e].time
                           = responders[k].timeline[e - 1].time + amount

\* a dense engine has finished and a responder with check_rate 2 and
\* base_check_time 20 has checked two rooms of different complexity
CheckTimeWitness ==
    /\ sim.pc = "done" /\ engine = "DetailedSimulator"
    /\ \E k \in DOMAIN responders :
          /\ responders[k].check_rate = 2 /\ responders[k].base_check_time = 20
          /\ Len(responders[k].rooms_checked) = 2
          /\ building.rooms[responders[k].rooms_checked[1]].check_complexity
                # building.rooms[responders[k].rooms_checked[2]].check_complexity

(***************************************************************************)
(* Claims about the early stop, the priority order and the decoding        *)
(***************************************************************************)
\* the rooms left unassigned that responder k could still reach from the
\* position the run left it at
StillReachable(x, k) ==
    {r \in runs[x].unchecked_rooms :
        shortest_path_length(graph, runs[x].positions[k], r) < Inf}

\* C21: the nearest and the balanced strategy stop early only when no
\* responder can reach any unassigned room: when optimize has returned, every
\* room left unassigned is unreachable from the current position of every
\* responder.
EarlyStopOnlyWhenUnreachable ==
    \A x \in Runs :
        (strategy \in {"nearest", "balanced"} /\ runs[x].pc = "done") =>
            \A k \in 1..n_responders : StillReachable(x, k) = {}

\* C22: in the assignment the priority strategy returns, high priority rooms
\* are checked first: within each responder's sequence no room of lower
\* priority precedes a room of higher priority.
HighPriorityFirst ==
    \A x \in Runs :
        (strategy = "priority" /\ runs[x].pc = "done") =>
            \A k \in DOMAIN runs[x].assignment :
                \A i, j \in DOMAIN runs[x].assignment[k] :
                    i < j => building.rooms[runs[x].assignment[k][i]].priority
                                >= building.rooms[runs[x].assignment[k][j]].priority

(***************************************************************************)
(* GeneticOptimizer._chromosome_to_assignment on its own: one call on a    *)
(* shuffle of the room indices, for every number of rooms and responders.  *)
(***************************************************************************)
MaxDecodeRooms == 4         \* rooms of the buildings whose chromosomes are decoded

\* self._chromosome_to_assignment(chromosome) returns
GADecode ==
    /\ ga.pc = "decode"
    /\ ~DecodeRaises(ga.chromosome, n_responders)
    /\ ga' = [ga EXCEPT !.pc = "decoded",
                        !.returned = chromosome_to_assignment(ga.chromosome, n_responders)]
    /\ UNCHANGED <<gaConfig, responders, clearance>>

\* self._chromosome_to_assignment(chromosome) raises ZeroDivisionError
GADecodeRaises ==
    /\ ga.pc = "decode"
    /\ DecodeRaises(ga.chromosome, n_responders)
    /\ ga' = [ga EXCEPT !.pc = "raised"]
    /\ UNCHANGED <<gaConfig, responders, clearance>>

\* GeneticOptimizer(building, n_responders) on the first rooms of a
\* two-sided corridor, and a chromosome as random.shuffle can leave it
InitDecode ==
    /\ building \in {FirstRooms(create_simple(2 * MaxDecodeRooms), m) :
                        m \in 1..MaxDecodeRooms}
    /\ graph = BuildingGraph(building)
    /\ n_responders \in 1..MaxDecodeRooms
    /\ capabilities = DefaultCapabilities
    /\ ga \in {[pc |-> "decode", chromosome |-> chromosome, returned |-> <<>>] :
                  chromosome \in Chromosomes(Len(RoomIds(building)))}
    /\ evaluations = NoEvals
    /\ OptIdle
    /\ SimIdle
    /\ GreedyIdle

NextDecode ==
    \/ GADecode
    \/ GADecodeRaises

SpecDecode == InitDecode /\ [][NextDecode]_vars

RECURSIVE Concatenated(_, _)
\* the sequences a[1], ..., a[k] one after the other
Concatenated(a, k) == IF k = 0 THEN <<>> ELSE Concatenated(a, k - 1) \o a[k]

\* C23: for R rooms and N responders, R >= N >= 1, the decoding cuts the
\* chromosome into contiguous blocks in chromosome order: responders 1..N-1
\* get floor(R/N) rooms each and responder N gets floor(R/N) + (R mod N), so
\* the block sizes differ by at most N-1, and every room is in the assignment
\* exactly once.
DecodeBlocks ==
    LET R == Len(ga.chromosome)
        N == n_responders
    IN  (ga.pc = "decoded" /\ R >= N /\ N >= 1) =>
            /\ DOMAIN ga.returned = 1..N
            /\ \A k \in 1..(N - 1) : Len(ga.returned[k]) = R \div N
            /\ Len(ga.returned[N]) = (R \div N) + (R % N)
            /\ \A j, k \in 1..N : Len(ga.returned[j]) - Len(ga.returned[k]) <= N - 1
            /\ Concatenated(ga.returned, N)
                  = [i \in 1..R |-> RoomIds(building)[ga.chromosome[i] + 1]]
            /\ \A r \in DOMAIN building.rooms :
                   Cardinality(Occurrences(ga.returned, r)) = 1

\* a decoded chromosome of four rooms for three responders: the division
\* leaves a remainder and the last responder's block is the longer one
DecodeBlocksWitness ==
    /\ ga.pc = "decoded" /\ Len(ga.chromosome) = 4 /\ n_responders = 3
    /\ Len(ga.returned[3]) = 2 /\ Len(ga.returned[1]) = 1
    /\ ga.chromosome # <<0, 1, 2, 3>>

(***************************************************************************)
(* GeneticOptimizer._crossover on its own: one call on two shuffles of the *)
(* room indices, with every pair of crossover points random.randint can    *)
(* draw.                                                                   *)
(***************************************************************************)
\* child1, child2 = self._crossover(parent1, parent2)
GACrossover ==
    /\ ga.pc = "crossover"
    /\ \E cx_point1 \in 0..(Len(ga.parent1) - 1) :
       \E cx_point2 \in (cx_point1 + 1)..Len(ga.parent1) :
           ga' = [ga EXCEPT !.pc = "crossed",
                            !.cx_point1 = cx_point1, !.cx_point2 = cx_point2,
                            !.children = crossover(ga.parent1, ga.parent2,
                                                   cx_point1, cx_point2)]
    /\ UNCHANGED <<gaConfig, responders, clearance>>

\* two chromosomes of the population of an optimizer
InitCrossover ==
    /\ building \in {FirstRooms(create_simple(2 * MaxDecodeRooms), m) :
                        m \in 1..MaxDecodeRooms}
    /\ graph = BuildingGraph(building)
    /\ n_responders = 1
    /\ capabilities = DefaultCapabilities
    /\ ga \in {[pc |-> "crossover", parent1 |-> parent1, parent2 |-> parent2,
                cx_point1 |-> 0, cx_point2 |-> 0, children |-> <<>>] :
                  parent1 \in Chromosomes(Len(RoomIds(building))),
                  parent2 \in Chromosomes(Len(RoomIds(building)))}
    /\ evaluations = NoEvals
    /\ OptIdle
    /\ SimIdle
    /\ GreedyIdle

SpecCrossover == InitCrossover /\ [][GACrossover]_vars

\* s read cyclically from the 0-based position c on
Rotated(s, c) == SubSeq(s, c + 1, Len(s)) \o SubSeq(s, 1, c)

\* child is the order crossover of `own` with `other` for the slice
\* c1..c2-1 (0-based): a permutation of the genes, the slice from `own`, the
\* other positions from c2 on cyclically holding the genes of `other` outside
\* the slice in the cyclic order of `other` from c2 on
IsOrderCrossover(child, own, other, c1, c2) ==
    LET size == Len(own)
        slice == {own[j] : j \in (c1 + 1)..c2}
        Outside(gene) == gene \notin slice
    IN  /\ Len(child) = size
        /\ Range(child) = Range(own)
        /\ -1 \notin Range(child)
        /\ \A i, j \in 1..size : i # j => child[i] # child[j]
        /\ \A j \in (c1 + 1)..c2 : child[j] = own[j]
        /\ SubSeq(Rotated(child, c2 % size), 1, size - (c2 - c1))
              = SelectSeq(Rotated(other, c2), Outside)

\* C24: for two parent permutations of the same genes and cut points
\* 0 <= c1 < c2 <= size, _crossover returns two permutations of the genes;
\* child 1 has parent 1's slice c1..c2-1 in place and, from c2 on cyclically,
\* parent 2's other genes in parent 2's cyclic order from c2; child 2
\* likewise with the parents exchanged.
CrossoverIsOrderCrossover ==
    ga.pc = "crossed" =>
        /\ IsOrderCrossover(ga.children[1], ga.parent1, ga.parent2,
                            ga.cx_point1, ga.cx_point2)
        /\ IsOrderCrossover(ga.children[2], ga.parent2, ga.parent1,
                            ga.cx_point1, ga.cx_point2)

\* a crossover of two different parents of four genes with an inner slice
\* whose first child is neither parent
CrossoverWitness ==
    /\ ga.pc = "crossed" /\ Len(ga.parent1) = 4
    /\ ga.cx_point1 = 1 /\ ga.cx_point2 = 3
    /\ ga.children[1] \notin {ga.parent1, ga.parent2}


(***************************************************************************)
(* The engines on a facility of two floors joined by a stairwell           *)
(***************************************************************************)
MaxStairTeam == 2           \* responders of the runs over two floors
NearStair == 3              \* a stairwell this far from the corridor waypoints
FarStair == 12              \* a stairwell further away than StairJoinLimit

\* A facility of two floors as Building.from_json builds it: the first
\* room on floor 1 along C_main, the other rooms on floor 2 along the corridor
\* C_up, the stairwell S1 connecting the two floors at distance d from both
\* corridors, E1 on floor 1 and E2 on floor 2 (up) or on floor 1; the
\* connections join the landings of S1 to the corridors and to each other.
StairFacility(rw, up, d) ==
    LET home(r) == IF r = RoomList[1] THEN Corridor ELSE "C_up"
    IN  [rooms |-> [r \in Rooms |->
                      Room(RoomIndex(r), IF r = RoomList[1] THEN 1 ELSE 2, 1,
                           IF rw[r] = 0 THEN FarDoor ELSE rw[r])],
         exits |-> ExitList,
         exit_floor |-> [e \in Exits |-> IF up /\ e = "E2" THEN 2 ELSE 1],
         corridor_floor |-> 1,
         upper_corridor |-> [id |-> "C_up", floor |-> 2],
         stairs |-> {[id |-> "S1", connects |-> <<1, 2>>, corridor_distance |-> d]},
         connections |->
             UNION {IF rw[r] = 0 THEN {} ELSE add_connection(r, home(r), rw[r]) : r \in Rooms}
             \cup add_connection(Corridor, "E1", 0)
             \cup add_connection(IF up THEN "C_up" ELSE Corridor, "E2", 0)
             \cup add_connection(Corridor, landing("S1", 1), d)
             \cup add_connection(landing("S1", 1), landing("S1", 2), StairLength)
             \cup add_connection(landing("S1", 2), "C_up", d)]

StairFacilities ==
    {StairFacility(rw, up, d) :
        rw \in [Rooms -> {0, 2}], up \in BOOLEAN, d \in {NearStair, FarStair}}

\* capabilities with three different speeds
StairCapabilities ==
    [walk_speed |-> 1, stair_up_speed |-> 2, stair_down_speed |-> 4,
     check_rate |-> DefaultCheckRate, base_check_time |-> DefaultBaseCheckTime]

StairEngines == {"Simulator", "NodeSimulator"}

InitStairs ==
    /\ engine \in StairEngines
    /\ building \in StairFacilities
    /\ graph = EngineGraph(engine, building)
    /\ n_responders \in 1..MaxStairTeam
    /\ capabilities = StairCapabilities
    /\ assignment \in Assignments(n_responders, MaxAssigned)
    /\ responders = ResponderTeam(n_responders,
                                  initial_positions(building, n_responders), capabilities)
    /\ clearance = reset_clearance(building)
    /\ sim = [pc |-> "ready", k |-> 0, i |-> 0, current_location |-> NoRoom]
    /\ warnings = <<>>
    /\ results = NoResults
    /\ GreedyIdle
    /\ ga = GAIdle
    /\ evaluations = NoEvals
    /\ OptIdle

NextStairs ==
    \/ Run
    \/ SimulatorExecute
    \/ NodeExecute
    \/ NextResponder
    \/ SimulatorCollect
    \/ NodeCollect

SpecStairs == InitStairs /\ [][NextStairs]_vars

\* the time the description gives for the edge from u to v: the weight over
\* the stair-up or the stair-down speed between two stair landings, by the
\* floors, and over the walk speed for every other edge
StatedEdgeTime(g, r, u, v) ==
    LET speed == IF g.type[u] = "stair" /\ g.type[v] = "stair"
                 THEN IF g.floor[v] > g.floor[u] THEN r.stair_up_speed
                      ELSE r.stair_down_speed
                 ELSE r.walk_speed
    IN  g.weight[<<u, v>>] \div speed

RECURSIVE StatedPathTime(_, _, _)
StatedPathTime(g, r, path) ==
    IF Len(path) <= 1 THEN 0
    ELSE StatedEdgeTime(g, r, path[1], path[2]) + StatedPathTime(g, r, Tail(path))

\* the last event before the j-th of a timeline that is no "passing" event:
\* the start or the end of the previous check
Departure(timeline, j) ==
    timeline[CHOOSE i \in 1..(j - 1) :
                 /\ timeline[i].action # "passing"
                 /\ \A h \in (i + 1)..(j - 1) : timeline[h].action = "passing"]

\* the edges of a path that join two stair landings
StairEdges(g, path) ==
    {i \in 1..(Len(path) - 1) : g.type[path[i]] = "stair" /\ g.type[path[i + 1]] = "stair"}

\* C25: in every engine the time a responder takes from one stop to the next
\* room is the sum over the edges of a shortest path of the weight over the
\* stair-up speed (landing to a higher landing), the stair-down speed (landing
\* to a lower landing) or the walk speed (every other edge).
StairEdgesAtStairSpeed ==
    \A k \in DOMAIN responders :
        \A j \in DOMAIN responders[k].timeline :
            responders[k].timeline[j].action = "arrive" =>
                LET from == Departure(responders[k].timeline, j)
                    to == responders[k].timeline[j]
                IN  \E path \in shortest_paths(graph, NodeOf(from.location),
                                               NodeOf(to.location)) :
                        to.time - from.time = StatedPathTime(graph, responders[k], path)

\* the same for the responders of NodeSimulator alone
NodeStairEdgesAtStairSpeed == engine = "NodeSimulator" => StairEdgesAtStairSpeed

\* a responder of Simulator has arrived in a room over the stairs
SimulatorOverStairs ==
    /\ engine = "Simulator"
    /\ \E k \in DOMAIN responders :
           \E j \in DOMAIN responders[k].timeline :
               /\ responders[k].timeline[j].action = "arrive"
               /\ \A path \in shortest_paths(graph,
                                 Departure(responders[k].timeline, j).location,
                                 responders[k].timeline[j].location) :
                      StairEdges(graph, path) # {}


\* x, a room (for its door), an exit or a stair landing on `floor`, is joined
\* to the corridor waypoint of that floor nearest to it
JoinedToNearest(v, x, floor) ==
    WaypointsOn(building, floor) # <<>> =>
        has_edge(graph, v, NearestWaypoint(building, WaypointsOn(building, floor), x))

\* C26: in the graph NodeBasedBuilding builds, every door, exit and stair
\* landing on a floor that has a corridor waypoint is joined by an edge to its
\* nearest waypoint of that floor, however far away it is.
DenseNodesJoinedToNearest ==
    engine = "NodeSimulator" =>
        /\ \A r \in DOMAIN building.rooms :
               JoinedToNearest(door(r), r, building.rooms[r].floor)
        /\ \A e \in Range(building.exits) :
               JoinedToNearest(e, e, building.exit_floor[e])
        /\ \A v \in Landings(building) :
               JoinedToNearest(v, v, LandingFloor(building, v))

\* the same for the exits alone, which the code joins at any distance
ExitsJoinedToNearest ==
    engine = "NodeSimulator" =>
        \A e \in Range(building.exits) : JoinedToNearest(e, e, building.exit_floor[e])


(***************************************************************************)
(* GeneticOptimizer.optimize for every population size and every number of *)
(* generations                                                             *)
(***************************************************************************)
\* GeneticOptimizer.__init__ with generations given
GAStartFor(population, generations) ==
    [GAStart(population) EXCEPT !.generations = generations]

\* a facility of two rooms, both joined to the corridor
GARunFacility == FirstRooms(Facility([r \in Rooms |-> 2], NormalPriority, TRUE, FALSE, FALSE), 2)

InitGARun ==
    /\ building = GARunFacility
    /\ graph = BuildingGraph(building)
    /\ n_responders \in 1..2
    /\ capabilities \in {c \in Capabilities : c.walk_speed = 2}
    /\ responders = ResponderTeam(n_responders,
                                  initial_positions(building, n_responders), capabilities)
    /\ clearance = reset_clearance(building)
    /\ ga \in {GAStartFor(population, generations) :
                   population \in UNION {[1..population_size -> Chromosomes(2)] :
                                            population_size \in 2..PopulationSize},
                   generations \in 0..Generations}
    /\ evaluations = NoEvals
    /\ OptIdle
    /\ engine = "Simulator"
    /\ assignment = <<>>
    /\ sim = Idle
    /\ warnings = <<>>
    /\ results = NoResults
    /\ GreedyIdle

NextGARun ==
    \/ GAEvaluate
    \/ GATournament
    \/ GATournamentRaises
    \/ GABreed
    \/ GAReturn
    \/ GAReturnRaises

SpecGARun == InitGARun /\ [][NextGARun]_vars

\* C27: optimize, started with G >= 0 generations, a population of at least
\* two and at least as many rooms as responders, raises nowhere, and when it
\* has returned it has run exactly G generations, fitness_history has exactly
\* G entries and the assignment returned is the best chromosome decoded.
GARunsAllGenerations ==
    /\ ga.pc # "raised"
    /\ ga.pc = "done" =>
           /\ ga.generation = ga.generations
           /\ Len(ga.fitness_history) = ga.generations
           /\ ga.best_solution \in Chromosomes(2)
           /\ ga.returned = chromosome_to_assignment(ga.best_solution, n_responders)

\* the same for the runs of at least one generation with a population of at
\* least three
GARunsAllGenerationsOfThree ==
    (ga.generations >= 1 /\ ga.population_size >= 3) => GARunsAllGenerations

\* optimize has returned after at least one generation
GARunReturned == ga.pc = "done" /\ ga.generations >= 1


(***************************************************************************)
(* Simulator.run on a building and a team an earlier run has used          *)
(***************************************************************************)
MaxRuns == 2                \* runs of Simulator on the same building and team

\* Simulator(building, team, assignment) for the building and the team of a
\* run that has returned: the result of that run is kept in `evaluations`,
\* the rooms and the responders stay as the run left them
SimulatorAgain ==
    /\ engine = "Simulator" /\ sim.pc = "done"
    /\ Len(evaluations) + 1 < MaxRuns
    /\ evaluations' = Append(evaluations, results)
    /\ assignment' \in Assignments(n_responders, MaxAssigned)
    /\ sim' = [pc |-> "ready", k |-> 0, i |-> 0, current_location |-> NoRoom]
    /\ warnings' = <<>>
    /\ results' = NoResults
    /\ UNCHANGED <<building, graph, n_responders, capabilities, greedyVars, ga, optVars,
                   engine, responders, clearance>>

\* the facilities the runs are repeated on
RerunFacilities ==
    {Facility(rw, NormalPriority, TRUE, FALSE, FALSE) :
        rw \in {w \in [Rooms -> {0, 2}] : w[RoomList[1]] = 2}}

InitRerun ==
    /\ engine = "Simulator"
    /\ building \in RerunFacilities
    /\ graph = BuildingGraph(building)
    /\ n_responders \in 1..MaxStairTeam
    /\ capabilities \in Capabilities
    /\ assignment \in Assignments(n_responders, MaxAssigned)
    /\ responders = ResponderTeam(n_responders,
                                  initial_positions(building, n_responders), capabilities)
    /\ clearance = reset_clearance(building)
    /\ sim = [pc |-> "ready", k |-> 0, i |-> 0, current_location |-> NoRoom]
    /\ warnings = <<>>
    /\ results = NoResults
    /\ GreedyIdle
    /\ ga = GAIdle
    /\ evaluations = NoEvals
    /\ OptIdle

NextRerun ==
    \/ Run
    \/ SimulatorExecute
    \/ NextResponder
    \/ SimulatorCollect
    \/ SimulatorAgain

SpecRerun == InitRerun /\ [][NextRerun]_vars

\* Simulator.run for the assignment on a building and a team just created
FreshRun ==
    run_quick(building, graph,
              ResponderTeam(n_responders, initial_positions(building, n_responders),
                            capabilities),
              assignment)

\* C28: Simulator.run resets the clearance and every responder at its start:
\* a run made after an earlier run on the same building and team returns the
\* result, and leaves the responders and the rooms, as the same run on a
\* building and a team just created.
RerunSameAsFresh ==
    (sim.pc = "done" /\ evaluations # NoEvals) =>
        /\ results = FreshRun.results
        /\ responders = FreshRun.responders
        /\ clearance = FreshRun.clearance

\* a second run has returned after a first run that checked another room in
\* another time
RerunWitness ==
    /\ sim.pc = "done" /\ evaluations # NoEvals
    /\ evaluations[1].total_time > 0
    /\ evaluations[1].total_time # results.total_time
    /\ evaluations[1].room_clearance # results.room_clearance
    /\ results.total_time > 0


GreedyOptimize == runs # <<>> /\ NextGreedy

\* one of the optimizers is created: GreedyOptimizer, GeneticOptimizer,
\* TopDownOptimizer or SmartOptimizer
InitOptimizers == InitGreedy \/ InitGARun \/ InitTopDown \/ InitSmart

NextOptimizers ==
    \/ GreedyOptimize
    \/ NextGARun
    \/ NextTopDown
    \/ SmartConstruct

SpecOptimizers == InitOptimizers /\ [][NextOptimizers]_vars

\* the assignments optimize() has returned: of GreedyOptimizer (also as the
\* optimizer SmartOptimizer delegates to), GeneticOptimizer, TopDownOptimizer
ReturnedAssignments ==
    {runs[x].assignment : x \in {y \in DOMAIN runs : runs[y].pc = "done"}}
    \cup (IF ga.pc = "done" THEN {ga.returned} ELSE {})
    \cup (IF topdown.pc = "done" THEN {topdown.assignment} ELSE {})

\* get_team(): the team every optimizer creates in __init__
OptimizerTeam ==
    ResponderTeam(n_responders, initial_positions(building, n_responders), capabilities)

\* C30: the assignment every optimizer returns has as its keys exactly the
\* ids 1..n of the responders of the team get_team returns, the responders
\* with an empty sequence included, so Simulator.run finds assignment[id]
\* for every responder.
AssignmentKeysAreTeamIds ==
    \A a \in ReturnedAssignments :
        /\ DOMAIN a = {OptimizerTeam[k].id : k \in DOMAIN OptimizerTeam}
        /\ DOMAIN a = 1..n_responders

\* an optimizer has returned an assignment in which one responder has rooms
\* and another has none
EmptySequenceReturned ==
    \E a \in ReturnedAssignments :
        \E j, k \in DOMAIN a : a[j] = <<>> /\ a[k] # <<>>

====
